---- MODULE Spec2Model ----
(***************************************************************************)
(* Social feed and direct messaging of FinanceAI_DocsAnalyze:             *)
(*   app/services/realtime.py  DMManager (rooms of live WebSockets)        *)
(*   app/services/social.py    posts, likes, reposts, connections and DMs  *)
(*                             on the single table                         *)
(*   app/routers/chat.py       api_dm (persist, then broadcast), ws_dm and *)
(*                             the feed and connection endpoints           *)
(* Spec is the realtime path; RepoSpec and SerialSpec are the repository   *)
(* calls, interleaved on worker threads and one after the other.           *)
(*                                                                         *)
(* Strings are modelled as sequences of character codes so that Python's   *)
(* sorted() on the two subjects is a real lexicographic comparison.  A     *)
(* message text is modelled as a prefix of a named word: [w, n] is the     *)
(* first n characters of word w, so that text[:k] is computed, not assumed.*)
(* The asyncio event loop runs one coroutine at a time, so a handler is    *)
(* one action from each await to the next: api_dm runs claims, send_dm,    *)
(* the room snapshot and the first send without yielding.                  *)
(***************************************************************************)
EXTENDS Integers, Sequences, FiniteSets, TLC

\* ---------------------------------------------------------------- bounds
MaxTasks == 2
MaxWS == 2
MaxClock == 1

Tasks == 1 .. MaxTasks
WS == 1 .. MaxWS
MsgIds == 1 .. MaxTasks

\* ------------------------------------------------------ program constants
DMTextLimit == 2000
ListDMDefaultLimit == 50

\* ---------------------------------------------------------------- inputs
Alice == <<97>>
Bob == <<98>>
Subs == {Alice, Bob}
Sep == <<124>>

Hi == [w |-> "hi", n |-> 2]
Long == [w |-> "long", n |-> DMTextLimit + 1]
NoText == [w |-> "", n |-> 0]
Texts == {Hi, Long}

NoToken == [present |-> FALSE, valid |-> FALSE, sub |-> <<>>]
BadToken == [present |-> TRUE, valid |-> FALSE, sub |-> <<>>]
GoodToken(s) == [present |-> TRUE, valid |-> TRUE, sub |-> s]
Tokens == {NoToken, BadToken} \cup {GoodToken(s) : s \in Subs}

\* requests to POST /api/chat/dm (cookie, to_sub, text)
DmRequests ==
    {<<tok, Bob, Hi>> : tok \in {NoToken, BadToken}}
    \cup {<<GoodToken(p[1]), p[2], text>> :
             p \in {<<Alice, Bob>>, <<Bob, Alice>>}, text \in Texts}

\* requests to /ws/dm/{peer_sub} (cookie, peer_sub)
WsRequests ==
    {<<tok, Bob>> : tok \in {NoToken, BadToken}}
    \cup {<<GoodToken(p[1]), p[2]>> :
             p \in {<<Bob, Alice>>, <<Bob, Bob>>}}

VARIABLES now, table, rooms, conn, inbox, pc, loc

vars == <<now, table, rooms, conn, inbox, pc, loc>>

\* ------------------------------------------------------------ pure helpers
Range(s) == {s[i] : i \in 1 .. Len(s)}

Take(s, k) == IF Len(s) <= k THEN s ELSE SubSeq(s, 1, k)

\* the whole text
Slice_none(t, k) == t

\* text[:k]
Slice(t, k) == [t EXCEPT !.n = IF t.n <= k THEN t.n ELSE k]

\* Python's str <= str: lexicographic on code points
RECURSIVE StrLeq(_, _)
StrLeq(s, t) ==
    IF s = <<>> THEN TRUE
    ELSE IF t = <<>> THEN FALSE
    ELSE IF Head(s) < Head(t) THEN TRUE
    ELSE IF Head(s) > Head(t) THEN FALSE
    ELSE StrLeq(Tail(s), Tail(t))

\* sorted([a, b])
sorted(a, b) == IF StrLeq(a, b) THEN <<a, b>> ELSE <<b, a>>

\* "|".join(pair)
join(pair) == pair[1] \o Sep \o pair[2]

\* realtime.py
convo_id_unsorted(a, b) == join(<<a, b>>)

convo_id(a, b) == join(sorted(a, b))

\* social.py
_convo_id(a, b) == join(sorted(a, b))

\* a verification that lets every token through
verify_jwt_any(tok) == TRUE

\* verify_jwt(token, audience): claims on success, raises otherwise
verify_jwt(tok) == tok.valid

\* ------------------------------------------------------------- the table
\* table.put_item(Item=item): insert or overwrite by (PK, SK)
put_item(items, item) ==
    {x \in items : ~(x.PK = item.PK /\ x.SK = item.SK)} \cup {item}

\* order of the sort key "MSG#<ts>#<msg_id>"
SKLess(x, y) ==
    \/ x.SK[1] < y.SK[1]
    \/ x.SK[1] = y.SK[1] /\ x.SK[2] < y.SK[2]

\* ScanIndexForward=True
RECURSIVE Ascending(_)
Ascending(S) ==
    IF S = {} THEN <<>>
    ELSE LET m == CHOOSE x \in S : \A y \in S : y = x \/ SKLess(x, y)
         IN <<m>> \o Ascending(S \ {m})

\* ScanIndexForward=False
RECURSIVE Descending(_)
Descending(S) ==
    IF S = {} THEN <<>>
    ELSE LET m == CHOOSE x \in S : \A y \in S : y = x \/ SKLess(y, x)
         IN <<m>> \o Descending(S \ {m})

list_dm_unsorted(sub_a, sub_b, limit) ==
    Take(Descending({m \in table.dm : m.PK = join(<<sub_a, sub_b>>)}), limit)

list_dm(sub_a, sub_b, limit) ==
    LET cid == _convo_id(sub_a, sub_b)
    IN Take(Descending({m \in table.dm : m.PK = cid}), limit)

\* ---------------------------------------------------------------- the hub
\* self.rooms.get(rid, set())
RoomGet(rms, rid) == IF rid \in DOMAIN rms THEN rms[rid] ELSE {}

\* room = list(self.rooms.get(rid, set())): the members, in some order
Snapshot_all(rms, rid) == UNION {rms[r] : r \in DOMAIN rms}

Snapshot(rms, rid) == RoomGet(rms, rid)

\* self.rooms[rid].add(ws) on a defaultdict(set)
RoomAdd(rms, rid, ws) ==
    [r \in DOMAIN rms \cup {rid} |->
        IF r = rid THEN RoomGet(rms, rid) \cup {ws} ELSE rms[r]]

\* a disconnect that drops the whole room
disconnect_room(rms, ws, me, peer) ==
    [r \in DOMAIN rms \ {convo_id(me, peer)} |-> rms[r]]

\* a disconnect that leaves the rooms as they are
disconnect_keep(rms, ws, me, peer) == rms

\* DMManager.disconnect
disconnect(rms, ws, me, peer) ==
    LET rid == convo_id(me, peer)
    IN IF RoomGet(rms, rid) = {} THEN rms
       ELSE LET room == rms[rid] \ {ws}
            IN IF room = {}
               THEN [r \in DOMAIN rms \ {rid} |-> rms[r]]
               ELSE [rms EXCEPT ![rid] = room]

\* for ws in dead: self.rooms[rid].discard(ws)
prune_none(rms, rid, dead) == rms

prune(rms, rid, dead) ==
    IF dead = {} THEN rms
    ELSE [r \in DOMAIN rms \cup {rid} |->
            IF r = rid THEN RoomGet(rms, rid) \ dead ELSE rms[r]]

\* ------------------------------------------------------------------ state
NoConn == [st |-> "new", alive |-> TRUE, me |-> <<>>, peer |-> <<>>]

Gone(st) == [st |-> st, alive |-> FALSE, me |-> <<>>, peer |-> <<>>]

NoLoc == [sender |-> <<>>, to_sub |-> <<>>, text |-> NoText, ts |-> 0,
          msg_id |-> 0, room |-> {}, tried |-> <<>>, dead |-> {}]

Init ==
    /\ now = 0
    /\ table = [dm |-> {}, dm_ptr |-> {}]
    /\ rooms = <<>>
    /\ conn = [w \in WS |-> NoConn]
    /\ inbox = [w \in WS |-> <<>>]
    /\ pc = [t \in Tasks |-> "idle"]
    /\ loc = [t \in Tasks |-> NoLoc]

\* ------------------------------------------------------------------ send_dm
\* uuid4 values already drawn
UsedMsgIds == {loc[t].msg_id : t \in Tasks} \cup {m.msg_id : m \in table.dm}

\* a message keyed by conversation and second only
StoredMsg_by_second(l) ==
    [PK |-> _convo_id(l.sender, l.to_sub), SK |-> <<l.ts, 0>>,
     from |-> l.sender, to |-> l.to_sub, text |-> Slice(l.text, DMTextLimit),
     created_at |-> l.ts, msg_id |-> l.msg_id]

\* the record send_dm stores
StoredMsg(l) ==
    [PK |-> _convo_id(l.sender, l.to_sub), SK |-> <<l.ts, l.msg_id>>,
     from |-> l.sender, to |-> l.to_sub, text |-> Slice(l.text, DMTextLimit),
     created_at |-> l.ts, msg_id |-> l.msg_id]

\* res["msg"], the record send_dm returns
ReturnedMsg(l) ==
    [from |-> l.sender, to |-> l.to_sub, text |-> l.text,
     created_at |-> l.ts, msg_id |-> l.msg_id]

\* a pointer per message instead of one per conversation
Ptr_per_message(sub, l) ==
    [PK |-> sub, SK |-> _convo_id(l.sender, l.to_sub) \o <<48 + l.msg_id>>,
     updated_at |-> l.ts]

Ptr(sub, l) ==
    [PK |-> sub, SK |-> _convo_id(l.sender, l.to_sub), updated_at |-> l.ts]

\* the table after the first k of send_dm's three put_item calls went through
\* (k < 3: call k + 1 raised)
send_dm_lost(tbl, l, k) ==
    [tbl EXCEPT
       !.dm_ptr = IF k >= 3
                  THEN put_item(put_item(tbl.dm_ptr, Ptr(l.sender, l)),
                                Ptr(l.to_sub, l))
                  ELSE IF k >= 2 THEN put_item(tbl.dm_ptr, Ptr(l.sender, l))
                  ELSE tbl.dm_ptr]

\* a send_dm that goes on after a put_item has raised
send_dm_goes_on(tbl, l, k) ==
    [tbl EXCEPT
       !.dm = put_item(tbl.dm, StoredMsg(l)),
       !.dm_ptr = put_item(put_item(tbl.dm_ptr, Ptr(l.sender, l)),
                           Ptr(l.to_sub, l))]

send_dm(tbl, l, k) ==
    [tbl EXCEPT
       !.dm = IF k >= 1 THEN put_item(tbl.dm, StoredMsg(l)) ELSE tbl.dm,
       !.dm_ptr = IF k >= 3
                  THEN put_item(put_item(tbl.dm_ptr, Ptr(l.sender, l)),
                                Ptr(l.to_sub, l))
                  ELSE IF k >= 2 THEN put_item(tbl.dm_ptr, Ptr(l.sender, l))
                  ELSE tbl.dm_ptr]

\* ------------------------------------------------------ DMManager.broadcast
\* {"type": "dm", "item": res["msg"]}
Payload(l) == [type |-> "dm", item |-> ReturnedMsg(l)]

Rid(t) == convo_id(loc[t].sender, loc[t].to_sub)

Remaining(t) == loc[t].room \ Range(loc[t].tried)

\* broadcast has returned: its locals room and dead are gone, res is kept
Returned(l) == [l EXCEPT !.room = {}, !.tried = <<>>, !.dead = {}]

\* one turn of `for ws in room`: await ws.send_json(payload), or its except.
\* A send to a client that is still there delivers; a send to a client that
\* has gone raises or returns without an error, as the server happens to notice.
SendTo_abort(t, l, ws) ==
    \E raised \in IF conn[ws].alive THEN {FALSE} ELSE BOOLEAN :
        /\ inbox' = IF conn[ws].alive
                    THEN [inbox EXCEPT ![ws] = Append(@, Payload(l))]
                    ELSE inbox
        /\ loc' = [loc EXCEPT ![t] =
                     [l EXCEPT !.tried = Append(@, ws),
                               !.dead = IF raised THEN @ \cup {ws} ELSE @]]
        /\ pc' = [pc EXCEPT ![t] =
                    IF l.room \ Range(l.tried) = {ws} \/ raised
                    THEN "prune" ELSE "sending"]

\* two sends of the payload in one turn of the loop
SendTo_twice(t, l, ws) ==
    \E raised \in IF conn[ws].alive THEN {FALSE} ELSE BOOLEAN :
        /\ inbox' = IF conn[ws].alive
                    THEN [inbox EXCEPT ![ws] = Append(Append(@, Payload(l)),
                                                      Payload(l))]
                    ELSE inbox
        /\ loc' = [loc EXCEPT ![t] =
                     [l EXCEPT !.tried = Append(@, ws),
                               !.dead = IF raised THEN @ \cup {ws} ELSE @]]
        /\ pc' = [pc EXCEPT ![t] =
                    IF l.room \ Range(l.tried) = {ws} THEN "prune" ELSE "sending"]

SendTo(t, l, ws) ==
    \E raised \in IF conn[ws].alive THEN {FALSE} ELSE BOOLEAN :
        /\ inbox' = IF conn[ws].alive
                    THEN [inbox EXCEPT ![ws] = Append(@, Payload(l))]
                    ELSE inbox
        /\ loc' = [loc EXCEPT ![t] =
                     [l EXCEPT !.tried = Append(@, ws),
                               !.dead = IF raised THEN @ \cup {ws} ELSE @]]
        /\ pc' = [pc EXCEPT ![t] =
                    IF l.room \ Range(l.tried) = {ws} THEN "prune" ELSE "sending"]

\* ------------------------------------------------------------------ api_dm
\* Requests are numbered in arrival order.  claims(request), send_dm, then
\* broadcast up to its first await: the room snapshot and the first send.
ApiDm(t, tok, to_sub, text, ts, k) ==
    /\ pc[t] = "idle"
    /\ \A u \in Tasks : u < t => pc[u] # "idle"
    /\ ts \in now .. MaxClock
    /\ k \in 0 .. 3
    /\ UNCHANGED <<rooms, conn>>
    /\ IF ~(tok.present /\ verify_jwt(tok))
       THEN /\ pc' = [pc EXCEPT ![t] = "error"]
            /\ UNCHANGED <<now, table, inbox, loc>>
       ELSE \E id \in MsgIds \ UsedMsgIds :
              LET l == [NoLoc EXCEPT !.sender = tok.sub, !.to_sub = to_sub,
                               !.text = text, !.ts = ts, !.msg_id = id,
                               !.room = Snapshot(rooms, convo_id(tok.sub, to_sub))]
              IN /\ now' = ts
                 /\ table' = send_dm(table, l, k)
                 /\ IF k < 3
                    THEN /\ pc' = [pc EXCEPT ![t] = "error"]
                         /\ UNCHANGED <<inbox, loc>>
                    ELSE IF l.room = {}
                    THEN /\ pc' = [pc EXCEPT ![t] = "done"]
                         /\ loc' = [loc EXCEPT ![t] = l]
                         /\ UNCHANGED inbox
                    ELSE \E ws \in l.room : SendTo(t, l, ws)

\* broadcast resumes after an await: the next turn of the loop
BroadcastSend(t, ws) ==
    /\ pc[t] = "sending"
    /\ ws \in Remaining(t)
    /\ SendTo(t, loc[t], ws)
    /\ UNCHANGED <<now, table, rooms, conn>>

\* a rebuild of the room from the list copied at the start
BroadcastPrune_rebuild(t) ==
    /\ pc[t] = "prune"
    /\ rooms' = [r \in DOMAIN rooms \cup {Rid(t)} |->
                    IF r = Rid(t) THEN loc[t].room \ loc[t].dead ELSE rooms[r]]
    /\ pc' = [pc EXCEPT ![t] = "done"]
    /\ loc' = [loc EXCEPT ![t] = Returned(@)]
    /\ UNCHANGED <<now, table, conn, inbox>>

\* the loop is over: for ws in dead: self.rooms[rid].discard(ws); return res
BroadcastPrune(t) ==
    /\ pc[t] = "prune"
    /\ rooms' = prune(rooms, Rid(t), loc[t].dead)
    /\ pc' = [pc EXCEPT ![t] = "done"]
    /\ loc' = [loc EXCEPT ![t] = Returned(@)]
    /\ UNCHANGED <<now, table, conn, inbox>>

\* ------------------------------------------------------------------ ws_dm
\* the room entry made before ws.accept() is awaited
WsOpen_add_first(ws, tok, peer_sub) ==
    /\ conn[ws].st = "new"
    /\ \A w \in WS : w < ws => conn[w].st # "new"
    /\ conn' = [conn EXCEPT ![ws] =
                  IF tok.present /\ verify_jwt(tok)
                  THEN [@ EXCEPT !.st = "accepting", !.me = tok.sub,
                                 !.peer = peer_sub]
                  ELSE Gone("refused")]
    /\ rooms' = IF tok.present /\ verify_jwt(tok)
                THEN RoomAdd(rooms, convo_id(tok.sub, peer_sub), ws)
                ELSE rooms
    /\ UNCHANGED <<now, table, inbox, pc, loc>>

\* Connections are numbered in arrival order.  Cookie check and verify_jwt;
\* then dm_manager.connect awaits ws.accept()
WsOpen(ws, tok, peer_sub) ==
    /\ conn[ws].st = "new"
    /\ \A w \in WS : w < ws => conn[w].st # "new"
    /\ conn' = [conn EXCEPT ![ws] =
                  IF tok.present /\ verify_jwt(tok)
                  THEN [@ EXCEPT !.st = "accepting", !.me = tok.sub,
                                 !.peer = peer_sub]
                  ELSE Gone("refused")]
    /\ UNCHANGED <<now, table, rooms, inbox, pc, loc>>

\* ws.accept() returns (or raises); self.rooms[convo_id(me, peer)].add(ws)
WsAccept(ws) ==
    /\ conn[ws].st = "accepting"
    /\ \E raised \in IF conn[ws].alive THEN {FALSE} ELSE BOOLEAN :
          IF raised
          THEN /\ conn' = [conn EXCEPT ![ws] = Gone("failed")]
               /\ UNCHANGED rooms
          ELSE /\ rooms' = RoomAdd(rooms, convo_id(conn[ws].me, conn[ws].peer), ws)
               /\ conn' = [conn EXCEPT ![ws].st = "open"]
    /\ UNCHANGED <<now, table, inbox, pc, loc>>

\* the client goes away (network event, any time)
ClientDrop(ws) ==
    /\ conn[ws].st \in {"accepting", "open"}
    /\ conn[ws].alive
    /\ conn' = [conn EXCEPT ![ws].alive = FALSE]
    /\ UNCHANGED <<now, table, rooms, inbox, pc, loc>>

\* receive_text raises WebSocketDisconnect; dm_manager.disconnect(ws, me, peer)
WsDisconnect(ws) ==
    /\ conn[ws].st = "open"
    /\ ~conn[ws].alive
    /\ rooms' = disconnect(rooms, ws, conn[ws].me, conn[ws].peer)
    /\ conn' = [conn EXCEPT ![ws] = Gone("closed")]
    /\ UNCHANGED <<now, table, inbox, pc, loc>>

\* ------------------------------------------------------------------- spec
Next ==
    \/ \E t \in Tasks, r \in DmRequests, ts \in 0 .. MaxClock, k \in 0 .. 3 :
          ApiDm(t, r[1], r[2], r[3], ts, k)
    \/ \E t \in Tasks, ws \in WS : BroadcastSend(t, ws)
    \/ \E t \in Tasks : BroadcastPrune(t)
    \/ \E ws \in WS, r \in WsRequests : WsOpen(ws, r[1], r[2])
    \/ \E ws \in WS : WsAccept(ws)
    \/ \E ws \in WS : ClientDrop(ws)
    \/ \E ws \in WS : WsDisconnect(ws)

Spec == Init /\ [][Next]_vars

\* ws_dm awaits receive_text in its loop: the event loop resumes it when the
\* disconnect of its client has arrived
LiveNext ==
    \/ \E t \in Tasks, ts \in 0 .. MaxClock, k \in {0, 3} :
          ApiDm(t, GoodToken(Alice), Bob, Hi, ts, k)
    \/ \E t \in Tasks, ws \in WS : BroadcastSend(t, ws)
    \/ \E t \in Tasks : BroadcastPrune(t)
    \/ \E ws \in WS, tok \in {NoToken, GoodToken(Bob)} : WsOpen(ws, tok, Alice)
    \/ \E ws \in WS : WsAccept(ws)
    \/ \E ws \in WS : ClientDrop(ws)
    \/ \E ws \in WS : WsDisconnect(ws)

LiveSpec ==
    Init /\ [][LiveNext]_vars /\ \A ws \in WS : WF_vars(WsDisconnect(ws))

\* ============================================ the repository (social.py)
\* The feed, like, repost and connection handlers of chat.py are plain `def`
\* endpoints: the framework runs them on worker threads, so calls interleave
\* between any two operations on the table.  RepoSpec runs them that way, one
\* table operation per step; SerialSpec runs one whole call after the other.
MaxThreads == 3
MaxCalls == 3
MaxPosts == 3

Threads == 1 .. MaxThreads
Calls == 1 .. MaxCalls
PostIds == 1 .. MaxPosts

PostTextLimit == 1000
ListFeedDefaultLimit == 20
ListConnDefaultLimit == 50
ListConvDefaultLimit == 20

Carol == <<99>>

\* a call's arguments and locals
NoFrame == [op |-> "none", sender |-> <<>>, to_sub |-> <<>>, name |-> "",
            post_id |-> 0, text |-> NoText, ts |-> 0, msg_id |-> 0,
            liked |-> FALSE, feed_key |-> {}]

Req(op, sub, other, post_id, text) ==
    [NoFrame EXCEPT !.op = op, !.sender = sub, !.to_sub = other,
                    !.name = IF op = "post" THEN "anon" ELSE "",
                    !.post_id = post_id, !.text = text]

PostRequests == {Req("post", Alice, <<>>, 0, Hi)}

LikeRequests == {Req("like", Bob, <<>>, p, NoText) : p \in PostIds}

RepostRequests == {Req("repost", Bob, <<>>, p, NoText) : p \in PostIds}

ConnectRequests ==
    {Req("connect", p[1], p[2], 0, NoText) :
        p \in {<<Alice, Bob>>, <<Bob, Alice>>, <<Alice, Carol>>}}

Yo == [w |-> "yo", n |-> 2]

SendDmRequests ==
    {Req("dm", p[1], p[2], 0, IF p[1] = Bob THEN Yo ELSE Hi) :
        p \in {<<Alice, Bob>>, <<Bob, Alice>>, <<Carol, Alice>>}}

ThreadRequests ==
    PostRequests \cup LikeRequests \cup RepostRequests \cup ConnectRequests

EmptyTable ==
    [dm |-> {}, dm_ptr |-> {}, feed |-> {}, user_post |-> {}, map |-> {},
     like |-> {}, repost |-> {}, conn |-> {}]

\* ------------------------------------------------------ table operations
Matches(x, key) == x.PK = key.PK /\ x.SK = key.SK

HasItem(items, key) == \E x \in items : Matches(x, key)

\* table.delete_item(Key=key)
delete_item(items, key) == {x \in items : ~Matches(x, key)}

\* table.update_item(Key=key, UpdateExpression="ADD attr :d"): an atomic add;
\* on a key that has no item the store creates the item with attr = d
update_item(items, key, attr, d) ==
    IF HasItem(items, key)
    THEN {IF Matches(x, key) THEN [x EXCEPT ![attr] = @ + d] ELSE x : x \in items}
    ELSE items \cup {(attr :> d) @@ [PK |-> key.PK, SK |-> key.SK]}

Outcome(tbl, f, p) == [tbl |-> tbl, f |-> f, pc |-> p]

\* ------------------------------------------------------------ create_post
\* "APP#FEED"; keys and cursors are strings of tokens
FeedPk == <<"APP#FEED">>

FeedItem(f) ==
    [PK |-> FeedPk, SK |-> <<f.ts, f.post_id>>, post_id |-> f.post_id,
     author_sub |-> f.sender, author_name |-> f.name,
     text |-> Slice(f.text, PostTextLimit), like_count |-> 0,
     repost_count |-> 0, created_at |-> f.ts, type |-> "post"]

UserPost(f) ==
    [PK |-> f.sender, SK |-> <<f.ts, f.post_id>>, ref_pk |-> FeedPk,
     ref_sk |-> <<f.ts, f.post_id>>, type |-> "user_post"]

FeedMap(f) ==
    [PK |-> f.post_id, SK |-> "MAP#FEED", feed_pk |-> FeedPk,
     feed_sk |-> <<f.ts, f.post_id>>]

\* one table operation of create_post, at position p; id is the uuid4 and ts
\* the clock it reads on entry, fail says that the operation raises
create_post_map_first(tbl, f, p, id, ts, fail) ==
    IF fail THEN Outcome(tbl, f, "error")
    ELSE IF p = "post_feed"
    THEN LET g == [f EXCEPT !.post_id = id, !.ts = ts]
         IN Outcome([tbl EXCEPT !.map = put_item(@, FeedMap(g))], g, "post_user")
    ELSE IF p = "post_user"
    THEN Outcome([tbl EXCEPT !.user_post = put_item(@, UserPost(f))], f, "post_map")
    ELSE Outcome([tbl EXCEPT !.feed = put_item(@, FeedItem(f))], f, "done")

create_post(tbl, f, p, id, ts, fail) ==
    IF fail THEN Outcome(tbl, f, "error")
    ELSE IF p = "post_feed"
    THEN LET g == [f EXCEPT !.post_id = id, !.ts = ts]
         IN Outcome([tbl EXCEPT !.feed = put_item(@, FeedItem(g))], g, "post_user")
    ELSE IF p = "post_user"
    THEN Outcome([tbl EXCEPT !.user_post = put_item(@, UserPost(f))], f, "post_map")
    ELSE Outcome([tbl EXCEPT !.map = put_item(@, FeedMap(f))], f, "done")

\* -------------------------------------------------------------- list_feed
\* None, and the empty string
NoCursor == <<>>

\* f"{lek['PK']}|{lek['SK']}"
feed_cursor(lek) == lek.PK \o <<"|">> \o lek.SK

\* the position of the first "|" in a string, 0 if there is none
RECURSIVE FirstBar(_, _)
FirstBar(s, i) ==
    IF i > Len(s) THEN 0
    ELSE IF s[i] = "|" THEN i
    ELSE FirstBar(s, i + 1)

\* pk, sk = cursor.split("|", 1); the empty set if that raises or the cursor
\* is empty: the query then has no ExclusiveStartKey
start_key(cursor) ==
    LET bar == FirstBar(cursor, 1)
    IN IF cursor = NoCursor \/ bar = 0 THEN {}
       ELSE {[PK |-> SubSeq(cursor, 1, bar - 1),
              SK |-> SubSeq(cursor, bar + 1, Len(cursor))]}

\* table.query on the feed partition, newest first, at most limit items from
\* the start key on; LastEvaluatedKey is the last item's key when the query
\* stopped at the limit.  A start key outside the partition is refused.
list_feed_inclusive(tbl, limit, cursor) ==
    LET start == start_key(cursor)
        part == {x \in tbl.feed : x.PK = FeedPk}
        rest == {x \in part : \A k \in start : SKLess(x, k) \/ x.SK = k.SK}
        items == Take(Descending(rest), limit)
    IN IF \E k \in start : k.PK # FeedPk \/ Len(k.SK) # 2
       THEN [raised |-> TRUE, items |-> <<>>, next |-> NoCursor]
       ELSE [raised |-> FALSE, items |-> items,
             next |-> IF Len(items) = limit /\ limit > 0
                      THEN feed_cursor(items[Len(items)])
                      ELSE NoCursor]

list_feed(tbl, limit, cursor) ==
    LET start == start_key(cursor)
        part == {x \in tbl.feed : x.PK = FeedPk}
        rest == {x \in part : \A k \in start : SKLess(x, k)}
        items == Take(Descending(rest), limit)
    IN IF \E k \in start : k.PK # FeedPk \/ Len(k.SK) # 2
       THEN [raised |-> TRUE, items |-> <<>>, next |-> NoCursor]
       ELSE [raised |-> FALSE, items |-> items,
             next |-> IF Len(items) = limit /\ limit > 0
                      THEN feed_cursor(items[Len(items)])
                      ELSE NoCursor]

\* ------------------------------------------------ _get_feed_key_from_post
\* the empty set is None
_get_feed_key_from_feed(tbl, post_id) ==
    {[PK |-> x.PK, SK |-> x.SK] : x \in {y \in tbl.feed : y.SK[2] = post_id}}

_get_feed_key_from_post(tbl, post_id) ==
    {[PK |-> m.feed_pk, SK |-> m.feed_sk] :
        m \in {x \in tbl.map : x.PK = post_id /\ x.SK = "MAP#FEED"}}

\* ------------------------------------------------------------ toggle_like
LikeKey(f) == [PK |-> f.post_id, SK |-> f.sender]

TheKey(keys) == CHOOSE k \in keys : TRUE

toggle_like_keep(tbl, f, p, id, ts, fail) ==
    IF fail THEN Outcome(tbl, f, "error")
    ELSE IF p = "like_put"
    THEN IF HasItem(tbl.like, LikeKey(f))
         THEN Outcome(tbl, f, "like_delete")
         ELSE Outcome([tbl EXCEPT !.like =
                           put_item(@, [PK |-> f.post_id, SK |-> f.sender,
                                        ts |-> ts])],
                      [f EXCEPT !.liked = TRUE], "like_get")
    ELSE IF p = "like_delete"
    THEN Outcome(tbl, [f EXCEPT !.liked = FALSE], "like_get")
    ELSE IF p = "like_get"
    THEN LET k == _get_feed_key_from_post(tbl, f.post_id)
         IN Outcome(tbl, [f EXCEPT !.feed_key = k],
                    IF k = {} THEN "done" ELSE "like_update")
    ELSE Outcome([tbl EXCEPT !.feed =
                      update_item(@, TheKey(f.feed_key), "like_count",
                                  IF f.liked THEN 1 ELSE -1)],
                 f, "done")

\* one table operation of toggle_like: the conditional put, the delete after
\* ConditionalCheckFailedException, the mapping lookup, the counter update
toggle_like(tbl, f, p, id, ts, fail) ==
    IF fail THEN Outcome(tbl, f, "error")
    ELSE IF p = "like_put"
    THEN IF HasItem(tbl.like, LikeKey(f))
         THEN Outcome(tbl, f, "like_delete")
         ELSE Outcome([tbl EXCEPT !.like =
                           put_item(@, [PK |-> f.post_id, SK |-> f.sender,
                                        ts |-> ts])],
                      [f EXCEPT !.liked = TRUE], "like_get")
    ELSE IF p = "like_delete"
    THEN Outcome([tbl EXCEPT !.like = delete_item(@, LikeKey(f))],
                 [f EXCEPT !.liked = FALSE], "like_get")
    ELSE IF p = "like_get"
    THEN LET k == _get_feed_key_from_post(tbl, f.post_id)
         IN Outcome(tbl, [f EXCEPT !.feed_key = k],
                    IF k = {} THEN "done" ELSE "like_update")
    ELSE Outcome([tbl EXCEPT !.feed =
                      update_item(@, TheKey(f.feed_key), "like_count",
                                  IF f.liked THEN 1 ELSE -1)],
                 f, "done")

\* ----------------------------------------------------------------- repost
RepostItem(f, ts) ==
    [PK |-> f.sender, SK |-> <<f.post_id, ts>>, type |-> "repost"]

repost(tbl, f, p, id, ts, fail) ==
    IF fail THEN Outcome(tbl, f, "error")
    ELSE IF p = "repost_get"
    THEN LET k == _get_feed_key_from_post(tbl, f.post_id)
         IN Outcome(tbl, [f EXCEPT !.feed_key = k],
                    IF k = {} THEN "repost_put" ELSE "repost_update")
    ELSE IF p = "repost_update"
    THEN Outcome([tbl EXCEPT !.feed =
                      update_item(@, TheKey(f.feed_key), "repost_count", 1)],
                 f, "repost_put")
    ELSE Outcome([tbl EXCEPT !.repost = put_item(@, RepostItem(f, ts))],
                 [f EXCEPT !.ts = ts], "done")

\* ---------------------------------------------------------- connect_users
\* "CONN#"
ConnPrefix == <<67, 79, 78, 78, 35>>

ConnItem(a, b, ts) ==
    [PK |-> a, SK |-> ConnPrefix \o b, created_at |-> ts, type |-> "conn"]

connect_users_one_way(tbl, f, p, id, ts, fail) ==
    IF fail THEN Outcome(tbl, f, "error")
    ELSE IF p = "conn_a"
    THEN Outcome([tbl EXCEPT !.conn = put_item(@, ConnItem(f.sender, f.to_sub, ts))],
                 [f EXCEPT !.ts = ts], "conn_b")
    ELSE Outcome(tbl, f, "done")

connect_users(tbl, f, p, id, ts, fail) ==
    IF fail THEN Outcome(tbl, f, "error")
    ELSE IF p = "conn_a"
    THEN Outcome([tbl EXCEPT !.conn = put_item(@, ConnItem(f.sender, f.to_sub, ts))],
                 [f EXCEPT !.ts = ts], "conn_b")
    ELSE Outcome([tbl EXCEPT !.conn = put_item(@, ConnItem(f.to_sub, f.sender, f.ts))],
                 f, "done")

\* ------------------------------------------------------- list_connections
\* the position of the first character c in s, 0 if there is none
RECURSIVE FirstChar(_, _, _)
FirstChar(s, c, i) ==
    IF i > Len(s) THEN 0
    ELSE IF s[i] = c THEN i
    ELSE FirstChar(s, c, i + 1)

\* s.split(c, 1)[1]
AfterFirst(s, c) == SubSeq(s, FirstChar(s, c, 1) + 1, Len(s))

\* s.split(c, 1)[0]
BeforeFirst(s, c) == SubSeq(s, 1, FirstChar(s, c, 1) - 1)

\* items by sort key (a string), largest first
RECURSIVE DescendingStr(_)
DescendingStr(S) ==
    IF S = {} THEN <<>>
    ELSE LET m == CHOOSE x \in S : \A y \in S : StrLeq(y.SK, x.SK)
         IN <<m>> \o DescendingStr(S \ {m})

list_connections(tbl, sub, limit) ==
    LET items == Take(DescendingStr({x \in tbl.conn : x.PK = sub}), limit)
    IN [i \in 1 .. Len(items) |-> AfterFirst(items[i].SK, 35)]

\* --------------------------------------------------- list_dm_conversations
\* convs.sort(key=last_at, reverse=True): a stable sort, largest first
RECURSIVE SortByLastAt(_)
SortByLastAt(convs) ==
    IF convs = <<>> THEN <<>>
    ELSE LET top == CHOOSE i \in 1 .. Len(convs) :
                       /\ \A j \in 1 .. Len(convs) :
                             convs[j].last_at <= convs[i].last_at
                       /\ \A j \in 1 .. i - 1 :
                             convs[j].last_at < convs[i].last_at
         IN <<convs[top]>>
            \o SortByLastAt([j \in 1 .. Len(convs) - 1 |->
                                IF j < top THEN convs[j] ELSE convs[j + 1]])

\* the summary of the conversation of pointer p; no profile is stored in
\* these runs, so peer_name falls back to the peer's sub
Summary(tbl, sub, p) ==
    LET cid == p.SK
        a == BeforeFirst(cid, 124)
        b == AfterFirst(cid, 124)
        peer == IF a = sub THEN b ELSE a
        last == Take(Descending({m \in tbl.dm : m.PK = cid}), 1)
    IN [peer_sub |-> peer, peer_name |-> peer,
        last_text |-> IF last # <<>> THEN last[1].text ELSE NoText,
        last_at |-> IF last # <<>> THEN last[1].created_at ELSE p.updated_at]

list_dm_conversations(tbl, sub, limit) ==
    LET ptrs == Take(DescendingStr({x \in tbl.dm_ptr : x.PK = sub}), limit)
    IN SortByLastAt([i \in 1 .. Len(ptrs) |-> Summary(tbl, sub, ptrs[i])])

\* ------------------------------------------------------------- dispatching
FirstPc(op) ==
    CASE op = "post" -> "post_feed"
      [] op = "like" -> "like_put"
      [] op = "repost" -> "repost_get"
      [] op = "connect" -> "conn_a"

\* positions whose operation is preceded by a call of _now_iso()
ReadsClock(p) == p \in {"post_feed", "like_put", "repost_put", "conn_a"}

\* positions preceded by uuid.uuid4()
DrawsUuid(p) == p = "post_feed"

StoreOp(tbl, f, p, id, ts, fail) ==
    CASE f.op = "post" -> create_post(tbl, f, p, id, ts, fail)
      [] f.op = "like" -> toggle_like(tbl, f, p, id, ts, fail)
      [] f.op = "repost" -> repost(tbl, f, p, id, ts, fail)
      [] f.op = "connect" -> connect_users(tbl, f, p, id, ts, fail)

\* a whole call: its table operations in order, the n-th of them raising
\* (n = 0: none raises)
RECURSIVE Run(_, _, _, _, _, _)
Run(tbl, f, p, id, ts, n) ==
    IF p \in {"done", "error"} THEN Outcome(tbl, f, p)
    ELSE LET r == StoreOp(tbl, f, p, id, ts, n = 1)
         IN Run(r.tbl, r.f, r.pc, id, ts, n - 1)

\* post ids that exist somewhere: a fresh uuid4 is none of them
UsedPostIds ==
    {x.post_id : x \in table.feed} \cup {x.PK : x \in table.map}
    \cup {x.PK : x \in table.like} \cup {x.SK[1] : x \in table.repost}
    \cup {loc[t].post_id : t \in DOMAIN loc}

Uuids(p) == IF DrawsUuid(p) THEN PostIds \ UsedPostIds ELSE {0}

Clock(p) == IF ReadsClock(p) THEN now .. MaxClock ELSE {now}

RepoInit ==
    /\ now = 0
    /\ table = EmptyTable
    /\ rooms = <<>>
    /\ conn = [w \in WS |-> NoConn]
    /\ inbox = [w \in WS |-> <<>>]
    /\ pc = [t \in Threads |-> "idle"]
    /\ loc = [t \in Threads |-> NoFrame]

\* ------------------------------------------------- calls on worker threads
\* a request arrives and a worker thread takes it (numbered in arrival order)
Arrive(t, req) ==
    /\ pc[t] = "idle"
    /\ \A u \in Threads : u < t => pc[u] # "idle"
    /\ pc' = [pc EXCEPT ![t] = FirstPc(req.op)]
    /\ loc' = [loc EXCEPT ![t] = req]
    /\ UNCHANGED <<now, table, rooms, conn, inbox>>

\* the thread of call t performs the call's next table operation
Step(t) ==
    /\ pc[t] \notin {"idle", "done", "error"}
    /\ \E id \in Uuids(pc[t]), ts \in Clock(pc[t]), fail \in BOOLEAN :
          LET r == StoreOp(table, loc[t], pc[t], id, ts, fail)
          IN /\ now' = ts
             /\ table' = r.tbl
             /\ loc' = [loc EXCEPT ![t] = r.f]
             /\ pc' = [pc EXCEPT ![t] = r.pc]
    /\ UNCHANGED <<rooms, conn, inbox>>

CreatePost(t) == loc[t].op = "post" /\ Step(t)

ToggleLike(t) == loc[t].op = "like" /\ Step(t)

Repost(t) == loc[t].op = "repost" /\ Step(t)

ConnectUsers(t) == loc[t].op = "connect" /\ Step(t)

RepoNext ==
    \/ \E t \in Threads, req \in ThreadRequests : Arrive(t, req)
    \/ \E t \in Threads : CreatePost(t)
    \/ \E t \in Threads : ToggleLike(t)
    \/ \E t \in Threads : Repost(t)
    \/ \E t \in Threads : ConnectUsers(t)

RepoSpec == RepoInit /\ [][RepoNext]_vars

\* ------------------------------------------------- one call after the other
SerialInit ==
    /\ now = 0
    /\ table = EmptyTable
    /\ rooms = <<>>
    /\ conn = [w \in WS |-> NoConn]
    /\ inbox = [w \in WS |-> <<>>]
    /\ pc = [c \in Calls |-> "idle"]
    /\ loc = [c \in Calls |-> NoFrame]

\* call c runs from entry to return (or to the operation that raises)
Call(c, req) ==
    /\ pc[c] = "idle"
    /\ \A u \in Calls : u < c => pc[u] # "idle"
    /\ \E id \in Uuids(FirstPc(req.op)), ts \in now .. MaxClock, n \in 0 .. 4 :
          LET r == Run(table, req, FirstPc(req.op), id, ts, n)
          IN /\ n > 0 => r.pc = "error"
             /\ now' = ts
             /\ table' = r.tbl
             /\ loc' = [loc EXCEPT ![c] = r.f]
             /\ pc' = [pc EXCEPT ![c] = r.pc]
    /\ UNCHANGED <<rooms, conn, inbox>>

CreatePostCall(c) == \E req \in PostRequests : req.op = "post" /\ Call(c, req)

ToggleLikeCall(c) == \E req \in LikeRequests : req.op = "like" /\ Call(c, req)

RepostCall(c) == \E req \in RepostRequests : req.op = "repost" /\ Call(c, req)

ConnectUsersCall(c) == \E req \in ConnectRequests : req.op = "connect" /\ Call(c, req)

\* send_dm, as api_dm calls it (the push is left to Spec)
SendDmCall(c) ==
    /\ pc[c] = "idle"
    /\ \A u \in Calls : u < c => pc[u] # "idle"
    /\ \E req \in SendDmRequests, ts \in now .. MaxClock, k \in 0 .. 3 :
       \E id \in Calls \ {m.msg_id : m \in table.dm} :
          LET f == [req EXCEPT !.ts = ts, !.msg_id = id]
          IN /\ now' = ts
             /\ table' = send_dm(table, f, k)
             /\ loc' = [loc EXCEPT ![c] = f]
             /\ pc' = [pc EXCEPT ![c] = IF k = 3 THEN "done" ELSE "error"]
    /\ UNCHANGED <<rooms, conn, inbox>>

SerialNext ==
    \/ \E c \in Calls : CreatePostCall(c)
    \/ \E c \in Calls : ToggleLikeCall(c)
    \/ \E c \in Calls : RepostCall(c)
    \/ \E c \in Calls : ConnectUsersCall(c)
    \/ \E c \in Calls : SendDmCall(c)

SerialSpec == SerialInit /\ [][SerialNext]_vars

\* =========================================== the entry points (chat.py)
\* ApiSpec is the router: every request passes claims(request) and the
\* handler's own checks before it reaches the repository.  The `def`
\* handlers run as whole calls, api_dm with its awaits as in Spec.  Clients
\* attach and stay; the loss of a connection is followed in Spec.
MaxReqs == 2

Reqs == 1 .. MaxReqs

\* request bodies: a text with blanks around it, a text of 1001 characters,
\* the empty text and a text of blanks only
Padded == [w |-> " hi ", n |-> 4]
LongPost == [w |-> "long", n |-> PostTextLimit + 1]
Blank == [w |-> " ", n |-> 3]

PostBodies == {Padded, LongPost, NoText, Blank}

DmBodies == {Hi, Long, NoText}

\* str.strip() on the request bodies
strip(t) ==
    IF t.w = " " THEN NoText
    ELSE IF t = Padded THEN Hi
    ELSE t

\* a handler that takes the request without looking at its cookie
claims_none(tok) == ""

\* claims(request): the exception it raises, "" when it returns the claims
claims(tok) ==
    IF ~tok.present THEN "HTTPException 401"
    ELSE IF ~verify_jwt(tok) THEN "InvalidTokenError"
    ELSE ""

\* a request's frame: the repository call's frame f, the cookie, the body,
\* the exception the handler ended with, what it returned, and broadcast's
\* locals
ApiFrame(f, tok, body, err, result) ==
    [op |-> f.op, sender |-> f.sender, to_sub |-> f.to_sub, name |-> f.name,
     post_id |-> f.post_id, text |-> f.text, ts |-> f.ts, msg_id |-> f.msg_id,
     liked |-> f.liked, feed_key |-> f.feed_key,
     tok |-> tok, body |-> body, err |-> err, result |-> result,
     room |-> {}, tried |-> <<>>, dead |-> {}]

NoCall == ApiFrame(NoFrame, NoToken, NoText, "", <<>>)

ApiInit ==
    /\ now = 0
    /\ table = EmptyTable
    /\ rooms = <<>>
    /\ conn = [w \in WS |-> NoConn]
    /\ inbox = [w \in WS |-> <<>>]
    /\ pc = [c \in Reqs |-> "idle"]
    /\ loc = [c \in Reqs |-> NoCall]

\* requests are numbered in arrival order
Begins(c) == pc[c] = "idle" /\ \A u \in Reqs : u < c => pc[u] # "idle"

\* the handler raises e before it has called the repository
Refused(c, op, tok, body, e) ==
    /\ pc' = [pc EXCEPT ![c] = "error"]
    /\ loc' = [loc EXCEPT ![c] =
                 ApiFrame([NoFrame EXCEPT !.op = op], tok, body, e, <<>>)]
    /\ UNCHANGED <<now, table, rooms, conn, inbox>>

\* the handler calls the repository with frame f and returns what it returns
Served(c, f, tok, body) ==
    \E id \in Uuids(FirstPc(f.op)), ts \in now .. MaxClock, n \in 0 .. 4 :
        LET r == Run(table, f, FirstPc(f.op), id, ts, n)
        IN /\ n > 0 => r.pc = "error"
           /\ now' = ts
           /\ table' = r.tbl
           /\ loc' = [loc EXCEPT ![c] =
                        ApiFrame(r.f, tok, body,
                                 IF r.pc = "error" THEN "ClientError" ELSE "",
                                 <<>>)]
           /\ pc' = [pc EXCEPT ![c] = r.pc]
           /\ UNCHANGED <<rooms, conn, inbox>>

\* the handler makes one query and returns its result
Answered(c, op, tok, other, result) ==
    \E fail \in BOOLEAN :
        IF fail THEN Refused(c, op, tok, NoText, "ClientError")
        ELSE /\ pc' = [pc EXCEPT ![c] = "done"]
             /\ loc' = [loc EXCEPT ![c] =
                          ApiFrame([NoFrame EXCEPT !.op = op,
                                                   !.sender = tok.sub,
                                                   !.to_sub = other],
                                   tok, NoText, "", result)]
             /\ UNCHANGED <<now, table, rooms, conn, inbox>>

ApiPost(c, tok, body) ==
    /\ Begins(c)
    /\ LET e == claims(tok)
           txt == strip(body)
       IN IF e # "" THEN Refused(c, "post", tok, body, e)
          ELSE IF txt.n = 0
          THEN Refused(c, "post", tok, body, "HTTPException 400")
          ELSE Served(c, Req("post", tok.sub, <<>>, 0, txt), tok, body)

ApiFeed(c, limit, cursor) ==
    /\ Begins(c)
    /\ LET r == list_feed(table, limit, cursor)
       IN IF r.raised THEN Refused(c, "feed", NoToken, NoText, "ClientError")
          ELSE Answered(c, "feed", NoToken, <<>>, r.items)

ApiLike(c, tok, post_id) ==
    /\ Begins(c)
    /\ LET e == claims(tok)
       IN IF e # "" THEN Refused(c, "like", tok, NoText, e)
          ELSE Served(c, Req("like", tok.sub, <<>>, post_id, NoText), tok, NoText)

ApiRepost(c, tok, post_id) ==
    /\ Begins(c)
    /\ LET e == claims(tok)
       IN IF e # "" THEN Refused(c, "repost", tok, NoText, e)
          ELSE Served(c, Req("repost", tok.sub, <<>>, post_id, NoText), tok, NoText)

ApiConnections(c, tok) ==
    /\ Begins(c)
    /\ LET e == claims(tok)
       IN IF e # "" THEN Refused(c, "connections", tok, NoText, e)
          ELSE Answered(c, "connections", tok, <<>>,
                        list_dm_conversations(table, tok.sub, ListConvDefaultLimit))

ApiConnect(c, tok, target_sub) ==
    /\ Begins(c)
    /\ LET e == claims(tok)
       IN IF e # "" THEN Refused(c, "connect", tok, NoText, e)
          ELSE Served(c, Req("connect", tok.sub, target_sub, 0, NoText), tok, NoText)

ApiDmList(c, tok, with_sub) ==
    /\ Begins(c)
    /\ LET e == claims(tok)
       IN IF e # "" THEN Refused(c, "dm_list", tok, NoText, e)
          ELSE Answered(c, "dm_list", tok, with_sub,
                        list_dm(tok.sub, with_sub, ListDMDefaultLimit))

\* api_dm: claims(request), send_dm, then broadcast up to its first await
ApiDmRequest(c, tok, to_sub, text) ==
    /\ Begins(c)
    /\ LET e == claims(tok)
       IN IF e # "" THEN Refused(c, "dm", tok, text, e)
          ELSE \E ts \in now .. MaxClock, k \in 0 .. 3 :
               \E id \in Reqs \ ({m.msg_id : m \in table.dm}
                                   \cup {loc[u].msg_id : u \in Reqs}) :
                 LET f == [Req("dm", tok.sub, to_sub, 0, text)
                              EXCEPT !.ts = ts, !.msg_id = id]
                     l == [ApiFrame(f, tok, text,
                                    IF k < 3 THEN "ClientError" ELSE "", <<>>)
                              EXCEPT !.room =
                                 IF k < 3 THEN {}
                                 ELSE Snapshot(rooms, convo_id(tok.sub, to_sub))]
                 IN /\ now' = ts
                    /\ table' = send_dm(table, l, k)
                    /\ UNCHANGED <<rooms, conn>>
                    /\ IF k < 3
                       THEN /\ pc' = [pc EXCEPT ![c] = "error"]
                            /\ loc' = [loc EXCEPT ![c] = l]
                            /\ UNCHANGED inbox
                       ELSE IF l.room = {}
                       THEN /\ pc' = [pc EXCEPT ![c] = "done"]
                            /\ loc' = [loc EXCEPT ![c] = l]
                            /\ UNCHANGED inbox
                       ELSE \E ws \in l.room : SendTo(c, l, ws)

\* bob's connections, all to the room of alice and bob
ApiWS == WS

Credentials(sub) == {NoToken, BadToken, GoodToken(sub)}

ApiNext ==
    \/ \E c \in Reqs, tok \in Credentials(Alice), body \in PostBodies :
          ApiPost(c, tok, body)
    \/ \E c \in Reqs : ApiFeed(c, ListFeedDefaultLimit, NoCursor)
    \/ \E c \in Reqs, tok \in Credentials(Bob), p \in PostIds : ApiLike(c, tok, p)
    \/ \E c \in Reqs, tok \in Credentials(Bob), p \in PostIds : ApiRepost(c, tok, p)
    \/ \E c \in Reqs, tok \in Credentials(Bob) : ApiConnections(c, tok)
    \/ \E c \in Reqs, tok \in Credentials(Alice) : ApiConnect(c, tok, Bob)
    \/ \E c \in Reqs, tok \in Credentials(Bob) : ApiDmList(c, tok, Alice)
    \/ \E c \in Reqs, tok \in Credentials(Alice), text \in DmBodies :
          ApiDmRequest(c, tok, Bob, text)
    \/ \E c \in Reqs, ws \in ApiWS : BroadcastSend(c, ws)
    \/ \E c \in Reqs : BroadcastPrune(c)
    \/ \E ws \in ApiWS : WsOpen(ws, GoodToken(Bob), Alice)
    \/ \E ws \in ApiWS : WsAccept(ws)

ApiSpec == ApiInit /\ [][ApiNext]_vars

\* ================================== the OAuth routes (auth_cognito.py)
\* GET /auth/login and GET /auth/callback.  A callback stops at its one
\* await, the POST to the token endpoint, and goes on when the answer is in.
MaxAuth == 2

AuthReqs == 1 .. MaxAuth

STATE_COOKIE == "oauth_state"
ID_COOKIE == "id_token"
ACCESS_COOKIE == "access_token"
COOKIE_MAX_AGE == 60 * 60
StateMaxAge == 600
STATE_SECRET == "STATE_SECRET"

\* Optional[str]
None == [some |-> FALSE, v |-> ""]
Str(v) == [some |-> TRUE, v |-> v]
Truthy(x) == x.some /\ x.v # ""

StateVals == {"s1", "s2"}
Codes == {None, Str(""), Str("c1")}
States == {None, Str("")} \cup {Str(v) : v \in StateVals}

\* TimestampSigner(key).sign(raw) at time ts: value, timestamp, signature
Signed(key, raw, ts) ==
    [some |-> TRUE, raw |-> raw, ts |-> ts, sig |-> <<key, raw, ts>>]

_sign_state(raw_state, ts) == Signed(STATE_SECRET, raw_state, ts)

\* an unsign that takes every cookie
_unsign_state_any(signed_state, max_age, t) ==
    [err |-> "", raw |-> signed_state.raw]

\* TimestampSigner(STATE_SECRET).unsign(signed_state, max_age) at time t:
\* BadSignature (SignatureExpired is one) or the value
_unsign_state(signed_state, max_age, t) ==
    IF signed_state.sig # <<STATE_SECRET, signed_state.raw, signed_state.ts>>
    THEN [err |-> "BadSignature", raw |-> ""]
    ELSE IF t - signed_state.ts > max_age
    THEN [err |-> "BadSignature", raw |-> ""]
    ELSE [err |-> "", raw |-> signed_state.raw]

NoCookie == [some |-> FALSE, raw |-> "", ts |-> 0, sig |-> <<>>]
EmptyCookie == [some |-> TRUE, raw |-> "", ts |-> 0, sig |-> <<>>]

\* a cookie signed with another key, and one of this server whose value
\* was changed afterwards
Forged(raw) == Signed("other", raw, 0)
Tampered(raw) == [Signed(STATE_SECRET, "s0", 0) EXCEPT !.raw = raw]

\* what the token endpoint may answer: no answer, an error status, a body
\* that is not JSON, or a JSON object with or without the two tokens
AccessToken == [present |-> TRUE, valid |-> FALSE, sub |-> Alice]

TokenAnswer(arrived, status, json, id, access) ==
    [arrived |-> arrived, status |-> status, json |-> json,
     id_token |-> id, access_token |-> access]

NoAnswer == TokenAnswer(FALSE, 0, FALSE, NoToken, NoToken)

TokenAnswers ==
    {NoAnswer, TokenAnswer(TRUE, 400, TRUE, NoToken, NoToken),
     TokenAnswer(TRUE, 200, FALSE, NoToken, NoToken)}
    \cup {TokenAnswer(TRUE, 200, TRUE, id, access) :
             id \in {NoToken, BadToken, GoodToken(Alice)},
             access \in {NoToken, AccessToken}}

\* responses: status, detail and the cookies they set
Unset == [set |-> FALSE, value |-> <<>>, max_age |-> 0]

Response(status, detail) ==
    [status |-> status, detail |-> detail,
     cookies |-> [k \in {STATE_COOKIE, ID_COOKIE, ACCESS_COOKIE} |-> Unset]]

set_cookie(resp, key, value, max_age) ==
    [resp EXCEPT !.cookies[key] =
        [set |-> TRUE, value |-> <<value>>, max_age |-> max_age]]

clear_cookie(resp, key) ==
    [resp EXCEPT !.cookies[key] = [set |-> TRUE, value |-> <<>>, max_age |-> 0]]

\* login: a fresh state in the redirect URL, its signed form in the cookie
login(state_raw, ts) ==
    set_cookie(Response(302, "login"), STATE_COOKIE,
               _sign_state(state_raw, ts), StateMaxAge)

\* callback up to the token request: the detail of the HTTPException 400 it
\* raises, or "" when it goes on to the request
callback_state(code, state, signed_state, t) ==
    IF ~Truthy(code) \/ ~Truthy(state) THEN "Missing code/state"
    ELSE IF ~signed_state.some \/ signed_state = EmptyCookie
    THEN "Missing state cookie"
    ELSE LET u == _unsign_state(signed_state, StateMaxAge, t)
         IN IF u.err # "" THEN "Invalid state cookie"
            ELSE IF u.raw # state.v THEN "State mismatch"
            ELSE ""

\* callback from the answer of the token endpoint on
callback_tokens(r) ==
    IF ~r.arrived THEN Response(500, "httpx error")
    ELSE IF r.status # 200 THEN Response(r.status, "Token exchange failed")
    ELSE IF ~r.json THEN Response(500, "JSONDecodeError")
    ELSE IF ~r.id_token.present \/ ~r.access_token.present
    THEN Response(400, "Tokens not returned")
    ELSE IF ~verify_jwt(r.id_token) THEN Response(400, "Invalid ID token")
    ELSE clear_cookie(
             set_cookie(
                 set_cookie(Response(302, "/"), ID_COOKIE, r.id_token,
                            COOKIE_MAX_AGE),
                 ACCESS_COOKIE, r.access_token, COOKIE_MAX_AGE),
             STATE_COOKIE)

\* the frame of a request
AuthFrame(op, code, state, cookie, answer, resp) ==
    [op |-> op, code |-> code, state |-> state, cookie |-> cookie,
     at |-> now, token_resp |-> answer, resp |-> resp]

NoAuth == [op |-> "none", code |-> None, state |-> None, cookie |-> NoCookie,
           at |-> 0, token_resp |-> NoAnswer, resp |-> Response(0, "")]

AuthInit ==
    /\ now = 0
    /\ table = EmptyTable
    /\ rooms = <<>>
    /\ conn = [w \in WS |-> NoConn]
    /\ inbox = [w \in WS |-> <<>>]
    /\ pc = [c \in AuthReqs |-> "idle"]
    /\ loc = [c \in AuthReqs |-> NoAuth]

\* requests are numbered in arrival order
AuthBegins(c) == pc[c] = "idle" /\ \A u \in AuthReqs : u < c => pc[u] # "idle"

\* every cookie value of the model
CookieValues ==
    {NoCookie, EmptyCookie}
    \cup {Signed(STATE_SECRET, v, ts) : v \in StateVals, ts \in {0, StateMaxAge + 1}}
    \cup {Forged(v) : v \in StateVals} \cup {Tampered(v) : v \in StateVals}

\* the state cookies this server has handed out
Issued ==
    {loc[c].resp.cookies[STATE_COOKIE].value[1] :
        c \in {d \in AuthReqs : loc[d].op = "login"}}

\* the cookies a request may carry
StateCookies ==
    {NoCookie, EmptyCookie} \cup Issued
    \cup {Forged(v) : v \in StateVals} \cup {Tampered(v) : v \in StateVals}

Login(c, state_raw) ==
    /\ AuthBegins(c)
    /\ pc' = [pc EXCEPT ![c] = "done"]
    /\ loc' = [loc EXCEPT ![c] =
                 AuthFrame("login", None, Str(state_raw), NoCookie, NoAnswer,
                           login(state_raw, now))]
    /\ UNCHANGED <<now, table, rooms, conn, inbox>>

\* the request comes in; the checks up to `await client.post(...)`
Callback(c, code, state, cookie) ==
    /\ AuthBegins(c)
    /\ cookie \in StateCookies
    /\ LET detail == callback_state(code, state, cookie, now)
       IN /\ pc' = [pc EXCEPT ![c] = IF detail = "" THEN "exchange" ELSE "error"]
          /\ loc' = [loc EXCEPT ![c] =
                       AuthFrame("callback", code, state, cookie, NoAnswer,
                                 IF detail = "" THEN Response(0, "")
                                 ELSE Response(400, detail))]
    /\ UNCHANGED <<now, table, rooms, conn, inbox>>

\* the token endpoint has answered (or the request has failed)
TokenExchange(c, r) ==
    /\ pc[c] = "exchange"
    /\ LET resp == callback_tokens(r)
       IN /\ pc' = [pc EXCEPT ![c] = IF resp.detail = "/" THEN "done" ELSE "error"]
          /\ loc' = [loc EXCEPT ![c] = [@ EXCEPT !.token_resp = r, !.resp = resp]]
    /\ UNCHANGED <<now, table, rooms, conn, inbox>>

\* more than the ten minutes of the state cookie go by
LongWait ==
    /\ now = 0
    /\ now' = now + StateMaxAge + 1
    /\ UNCHANGED <<table, rooms, conn, inbox, pc, loc>>

AuthNext ==
    \/ \E c \in AuthReqs, v \in StateVals : Login(c, v)
    \/ \E c \in AuthReqs, code \in Codes, state \in States, cookie \in CookieValues :
          Callback(c, code, state, cookie)
    \/ \E c \in AuthReqs, r \in TokenAnswers : TokenExchange(c, r)
    \/ LongWait

AuthSpec == AuthInit /\ [][AuthNext]_vars


\* ================================================================= claims
\* steps of the handlers, as seen from outside
Sends(t) == Len(loc'[t].tried) > Len(loc[t].tried)

SentTo(t) == loc'[t].tried[Len(loc'[t].tried)]

Prunes(t) == pc[t] = "prune" /\ pc'[t] = "done"

Broadcasting(t) == pc[t] \in {"sending", "prune"}

Attaches(ws) == conn[ws].st = "accepting" /\ conn'[ws].st = "open"

Detaches(ws) == conn[ws].st = "open" /\ conn'[ws].st = "closed"

Members(rid) == RoomGet(rooms, rid)

\* how often the payload of message id was pushed to ws
Pushed(ws, id) == {i \in 1 .. Len(inbox[ws]) : inbox[ws][i].item.msg_id = id}

\* C1: every DM payload that was pushed to a connection is the payload of a
\* message record that list_dm on its conversation returns (same message id,
\* sender, receiver and timestamp): the record is written before any push.
C1_PersistBeforePush ==
    \A ws \in WS : \A i \in 1 .. Len(inbox[ws]) :
        LET it == inbox[ws][i].item
            items == list_dm(it.from, it.to, ListDMDefaultLimit)
        IN \E j \in 1 .. Len(items) :
              /\ items[j].msg_id = it.msg_id
              /\ items[j].from = it.from
              /\ items[j].to = it.to
              /\ items[j].created_at = it.created_at

C1_Witness == \E ws \in WS : inbox[ws] # <<>>

\* C2: every room id in the hub's rooms map has at least one member.
C2_NoEmptyRoom == \A rid \in DOMAIN rooms : rooms[rid] # {}

\* C3: a broadcast that has finished its loop while the room's membership is
\* what it was at the start has attempted exactly one send to each member of
\* the room and to no connection of another room, and each member whose
\* client is there holds the payload exactly once; detaching the last member
\* removes the room, and attaching to an absent room starts a room with only
\* the new connection.
C3_LoopDone(t) ==
    pc[t] = "prune" /\ Members(Rid(t)) = loc[t].room =>
        /\ Range(loc[t].tried) = Members(Rid(t))
        /\ Len(loc[t].tried) = Cardinality(Members(Rid(t)))
        /\ \A rid \in DOMAIN rooms \ {Rid(t)} :
              rooms[rid] \cap Range(loc[t].tried) = {}
        /\ \A ws \in loc[t].room :
              /\ Cardinality(Pushed(ws, loc[t].msg_id)) <= 1
              /\ conn[ws].alive => Pushed(ws, loc[t].msg_id) # {}

C3_Step ==
    /\ \A t \in Tasks : C3_LoopDone(t)'
    /\ \A t \in Tasks : pc[t] = "idle" /\ pc'[t] \notin {"idle", "error"} =>
          IF Members(Rid(t)') = {}
          THEN pc'[t] = "done" /\ inbox' = inbox
          ELSE loc'[t].room = Members(Rid(t)') /\ Len(loc'[t].tried) = 1
    /\ \A ws \in WS :
          LET rid == convo_id(conn[ws].me, conn[ws].peer)
          IN /\ Detaches(ws) /\ Members(rid) = {ws} => rid \notin DOMAIN rooms'
             /\ Attaches(ws) /\ rid \notin DOMAIN rooms => rooms'[rid] = {ws}

C3_Broadcast == [][C3_Step]_vars

C3_Witness ==
    \E w1 \in WS, w2 \in WS :
        /\ w1 # w2
        /\ conn[w1].st = "closed"
        /\ Len(inbox[w1]) = 1
        /\ Len(inbox[w2]) = 2
        /\ inbox[w2][1] = inbox[w1][1]
        /\ inbox[w2][2] # inbox[w1][1]

\* C4: a failed send does not abort the broadcast: when the loop is over every
\* connection of the snapshot has been attempted, the prune leaves no failed
\* connection in the room, and a broadcast never ends in an error.
C4_Step ==
    \A t \in Tasks :
        /\ pc'[t] = "prune" => Range(loc'[t].tried) = loc'[t].room
        /\ Prunes(t) => RoomGet(rooms', Rid(t)) \cap loc[t].dead = {}
        /\ Broadcasting(t) => pc'[t] # "error"
        /\ Sends(t) => pc'[t] # "error"

C4_FailedSend == [][C4_Step]_vars

C4_Witness ==
    \E t \in Tasks :
        /\ pc[t] = "prune"
        /\ Len(loc[t].tried) = 2
        /\ loc[t].tried[1] \in loc[t].dead
        /\ loc[t].tried[2] \notin loc[t].dead
        /\ Pushed(loc[t].tried[2], loc[t].msg_id) # {}

C5_Step ==
    \A t \in Tasks :
        /\ Sends(t) => rooms' = rooms
        /\ Prunes(t) =>
              /\ RoomGet(rooms', Rid(t)) = Members(Rid(t)) \ loc[t].dead
              /\ \A rid \in DOMAIN rooms \ {Rid(t)} :
                    rid \in DOMAIN rooms' /\ rooms'[rid] = rooms[rid]

C6_MutualExclusion ==
    [][\A t \in Tasks :
          /\ Sends(t) => SentTo(t) \in Members(Rid(t)')
          /\ Broadcasting(t) /\ ~Prunes(t) =>
                RoomGet(rooms', Rid(t)) = Members(Rid(t))]_vars

\* C7: convo_id is commutative and equals the repository's _convo_id, so a
\* message of the two participants of an attached connection is stored under
\* the id of the room the connection is in, whoever is named first.
C7_Commutative ==
    /\ \A a \in Subs, b \in Subs :
          /\ convo_id(a, b) = convo_id(b, a)
          /\ _convo_id(a, b) = _convo_id(b, a)
          /\ convo_id(a, b) = _convo_id(a, b)
    /\ \A rid \in DOMAIN rooms : \A ws \in rooms[rid] : \A m \in table.dm :
          {m.from, m.to} = {conn[ws].me, conn[ws].peer} => m.PK = rid

C7_Witness ==
    \E rid \in DOMAIN rooms : \E ws \in rooms[rid] : \E m \in table.dm :
        /\ m.from = conn[ws].peer
        /\ m.to = conn[ws].me
        /\ m.from # m.to
        /\ m.PK = rid

\* C8: once api_dm has returned, list_dm(sender, receiver) contains the
\* stored message, whether or not any connection was sent it.
C8_Stored ==
    \A t \in Tasks : pc[t] = "done" =>
        StoredMsg(loc[t]) \in
            Range(list_dm(loc[t].sender, loc[t].to_sub, ListDMDefaultLimit))

\* api_dm has returned although no connection was ever opened
C8_Witness ==
    \E t \in Tasks :
        /\ pc[t] = "done"
        /\ \A ws \in WS : Pushed(ws, loc[t].msg_id) = {}
        /\ \A ws \in WS : conn[ws].st = "new"

\* C9: every live connection of the receiver that was attached when the DM
\* was sent holds exactly one payload {type: "dm", item: message} with the
\* text of the stored message, and once api_dm has returned list_dm(sender,
\* receiver, 10) has that message as its first entry.
C9_Delivered ==
    \A t \in Tasks :
        /\ pc[t] = "prune" =>
              \A ws \in {w \in loc[t].room : conn[w].alive} :
                  /\ Cardinality(Pushed(ws, loc[t].msg_id)) = 1
                  /\ \A i \in Pushed(ws, loc[t].msg_id) :
                        /\ inbox[ws][i].type = "dm"
                        /\ inbox[ws][i].item.text = StoredMsg(loc[t]).text
        /\ pc[t] = "done" /\ (\E ws \in WS : Pushed(ws, loc[t].msg_id) # {}) =>
              LET items == list_dm(loc[t].sender, loc[t].to_sub, 10)
              IN items # <<>> /\ items[1].msg_id = loc[t].msg_id

\* C10: the message in a pushed payload is the stored message: same sender,
\* receiver, text, timestamp and message id.
C10_PayloadIsStored ==
    \A ws \in WS : \A i \in 1 .. Len(inbox[ws]) :
        LET it == inbox[ws][i].item
        IN \E m \in table.dm :
              /\ m.msg_id = it.msg_id
              /\ m.from = it.from
              /\ m.to = it.to
              /\ m.text = it.text
              /\ m.created_at = it.created_at

\* ------------------------------------------------ the repository's claims
Users == {Alice, Bob, Carol}

\* call c ran from entry to return in this step
Returns(c) == pc[c] = "idle" /\ pc'[c] = "done"

HasLike(tbl, p, u) == HasItem(tbl.like, [PK |-> p, SK |-> u])

\* the post's create_post has written its mapping
Posted(tbl, p) == _get_feed_key_from_post(tbl, p) # {}

like_count(tbl, p) == (CHOOSE x \in tbl.feed : x.SK[2] = p).like_count

repost_count(tbl, p) == (CHOOSE x \in tbl.feed : x.SK[2] = p).repost_count

\* C11: on a post that exists, a toggle_like by a user without a like returns
\* liked = true, leaves the like record and like_count + 1; the same call
\* again, right after it, returns liked = false, leaves no like record and
\* the like_count the post had before the first call.
C11_Step ==
    \A c \in Calls :
        Returns(c) /\ loc'[c].op = "like" /\ Posted(table, loc'[c].post_id) =>
            LET p == loc'[c].post_id
                u == loc'[c].sender
                again == Run(table', Req("like", u, <<>>, p, NoText),
                             "like_put", 0, now', 0)
            IN /\ ~HasLike(table, p, u) =>
                     /\ loc'[c].liked
                     /\ HasLike(table', p, u)
                     /\ like_count(table', p) = like_count(table, p) + 1
                     /\ again.pc = "done"
                     /\ ~again.f.liked
                     /\ ~HasLike(again.tbl, p, u)
                     /\ like_count(again.tbl, p) = like_count(table, p)
               /\ (\E b \in Calls :
                     /\ b + 1 = c
                     /\ pc[b] = "done"
                     /\ loc[b] = [loc'[c] EXCEPT !.liked = TRUE]) =>
                     /\ ~loc'[c].liked
                     /\ ~HasLike(table', p, u)
                     /\ like_count(table', p) = like_count(table, p) - 1

C11_ToggleTwice == [][C11_Step]_vars

C11_Witness ==
    \E b \in Calls, c \in Calls :
        /\ b + 1 = c
        /\ pc[b] = "done" /\ pc[c] = "done"
        /\ loc[b].op = "like" /\ loc[b].liked /\ loc[b].feed_key # {}
        /\ loc[c] = [loc[b] EXCEPT !.liked = FALSE]
        /\ like_count(table, loc[c].post_id) = 0
        /\ ~HasLike(table, loc[c].post_id, loc[c].sender)

\* the calls of toggle_like(p, u) that have been taken up
LikeCalls(p, u) ==
    {t \in DOMAIN pc : /\ pc[t] # "idle"
                       /\ loc[t].op = "like"
                       /\ loc[t].post_id = p
                       /\ loc[t].sender = u}

\* C12: when all toggle_like(p, u) calls taken up so far have returned, their
\* results, the like record and the like_count are those of the calls run
\* one after the other: of n calls on a record that was absent, every other
\* one returned liked = true, and the record exists (and counts) iff n is odd.
C12_Serializable ==
    \A p \in PostIds, u \in Users :
        LET cs == LikeCalls(p, u)
            n == Cardinality(cs)
        IN (\A t \in cs : pc[t] = "done") =>
              /\ Cardinality({t \in cs : loc[t].liked}) = (n + 1) \div 2
              /\ HasLike(table, p, u) <=> n % 2 = 1
              /\ n > 0 /\ (\A t \in cs : loc[t].feed_key # {}) =>
                    like_count(table, p) = n % 2

\* the send_dm calls between a and b, in either direction, taken up so far
DmCalls(a, b) ==
    {c \in DOMAIN pc : /\ pc[c] # "idle"
                       /\ loc[c].op = "dm"
                       /\ {loc[c].sender, loc[c].to_sub} = {a, b}}

\* C13: when the conversation of a and b consists of N completed send_dm
\* calls with distinct timestamps, list_dm(a, b, N) and list_dm(b, a, N) are
\* the same list of exactly these N messages, newest first with strictly
\* descending timestamps, and hold no message of another conversation.
C13_ListDm ==
    \A a \in Users, b \in Users :
        LET cs == DmCalls(a, b)
            N == Cardinality(cs)
            items == list_dm(a, b, N)
        IN /\ N > 0
           /\ \A c \in cs : pc[c] = "done"
           /\ \A c \in cs, d \in cs : c # d => loc[c].ts # loc[d].ts
           => /\ items = list_dm(b, a, N)
              /\ Len(items) = N
              /\ Range(items) = {StoredMsg(loc[c]) : c \in cs}
              /\ \A i \in 1 .. N - 1 :
                    items[i].created_at > items[i + 1].created_at
              /\ \A i \in 1 .. N : {items[i].from, items[i].to} = {a, b}

\* two messages of alice and bob, one each way, and one of another pair
C13_Witness ==
    /\ \E c \in DmCalls(Alice, Bob), d \in DmCalls(Alice, Bob) :
          /\ pc[c] = "done" /\ pc[d] = "done"
          /\ loc[c].sender = Alice /\ loc[d].sender = Bob
          /\ loc[c].ts # loc[d].ts
    /\ \E m \in table.dm : {m.from, m.to} # {Alice, Bob}

\* the pages a client gets that starts without a cursor and follows each
\* returned cursor, up to n pages
RECURSIVE FeedPages(_, _, _, _)
FeedPages(tbl, limit, cursor, n) ==
    IF n = 0 THEN <<>>
    ELSE LET r == list_feed(tbl, limit, cursor)
         IN IF r.next = NoCursor THEN <<r>>
            ELSE <<r>> \o FeedPages(tbl, limit, r.next, n - 1)

RECURSIVE AllItems(_)
AllItems(pages) ==
    IF pages = <<>> THEN <<>> ELSE Head(pages).items \o AllItems(Tail(pages))

\* C14: with M posts in the feed and a page size L < M, the first page holds
\* the L newest posts and a cursor; following the cursors visits every post
\* exactly once, newest first; every page but the last is full and carries a
\* cursor, and a page with fewer than L posts carries none (3 posts and
\* L = 2: 2 posts and a cursor, then 1 post and no cursor).
C14_Pagination ==
    LET M == Cardinality(table.feed)
    IN \A L \in 1 .. M - 1 :
          LET pages == FeedPages(table, L, NoCursor, M + 1)
              all == AllItems(pages)
          IN /\ Len(pages[1].items) = L /\ pages[1].next # NoCursor
             /\ pages[1].items = Take(Descending(table.feed), L)
             /\ all = Descending(table.feed)
             /\ \A i \in 1 .. Len(all) - 1 :
                   all[i].created_at >= all[i + 1].created_at
             /\ pages[Len(pages)].next = NoCursor
             /\ \A i \in 1 .. Len(pages) :
                   /\ ~pages[i].raised
                   /\ i < Len(pages) => Len(pages[i].items) = L
                   /\ Len(pages[i].items) < L => pages[i].next = NoCursor

\* three posts, two of them of the same second: pages of 2 and 1
C14_Witness ==
    /\ Cardinality(table.feed) = 3
    /\ \E x \in table.feed, y \in table.feed : x # y /\ x.created_at = y.created_at
    /\ LET pages == FeedPages(table, 2, NoCursor, 4)
       IN /\ Len(pages) = 2
          /\ Len(pages[1].items) = 2 /\ pages[1].next # NoCursor
          /\ Len(pages[2].items) = 1 /\ pages[2].next = NoCursor

\* C15: at every moment, with create_post calls under way or failed part-way,
\* every mapping item (POST#<id>, MAP#FEED) names a feed item that exists in
\* the feed partition and is the post of that id.
C15_MappingResolves ==
    \A m \in table.map :
        /\ m.SK = "MAP#FEED"
        /\ m.feed_pk = FeedPk
        /\ \E x \in table.feed :
              /\ x.PK = m.feed_pk
              /\ x.SK = m.feed_sk
              /\ x.post_id = m.PK

\* one post has its mapping, another create_post stopped after the feed item
C15_Witness ==
    /\ table.map # {}
    /\ \E t \in DOMAIN pc, u \in DOMAIN pc :
          /\ loc[t].op = "post" /\ pc[t] = "error" /\ loc[t].post_id # 0
          /\ loc[u].op = "post" /\ pc[u] \in {"post_user", "post_map"}

NoMapping(tbl, p) == \A m \in tbl.map : m.PK # p

\* C16: on a post without mapping item, toggle_like and repost do not raise;
\* toggle_like creates the like record and returns liked = true, or deletes
\* it and returns liked = false; repost writes its audit record; and neither
\* changes any item of the feed, so no like_count and no repost_count.
C16_Step ==
    /\ \A req \in LikeRequests \cup RepostRequests :
          NoMapping(table, req.post_id) =>
              Run(table, req, FirstPc(req.op), 0, now, 0).pc = "done"
    /\ \A c \in Calls :
          /\ Returns(c)
          /\ loc'[c].op \in {"like", "repost"}
          /\ NoMapping(table, loc'[c].post_id)
          => LET p == loc'[c].post_id
                 u == loc'[c].sender
             IN /\ table'.feed = table.feed
                /\ loc'[c].op = "like" =>
                      /\ loc'[c].liked = ~HasLike(table, p, u)
                      /\ HasLike(table', p, u) = loc'[c].liked
                /\ loc'[c].op = "repost" =>
                      RepostItem(loc'[c], loc'[c].ts) \in table'.repost

C16_NoMapping == [][C16_Step]_vars

\* a post whose create_post failed before the mapping: liked and reposted
C16_Witness ==
    \E x \in table.feed :
        /\ NoMapping(table, x.post_id)
        /\ x.like_count = 0 /\ x.repost_count = 0
        /\ HasLike(table, x.post_id, Bob)
        /\ \E c \in Calls, d \in Calls :
              /\ pc[c] = "done" /\ loc[c].op = "like" /\ loc[c].liked
              /\ loc[c].post_id = x.post_id
              /\ pc[d] = "done" /\ loc[d].op = "repost"
              /\ loc[d].post_id = x.post_id

\* the repost(p, u) calls taken up so far
RepostCalls(p, u) ==
    {t \in DOMAIN pc : /\ pc[t] # "idle"
                       /\ loc[t].op = "repost"
                       /\ loc[t].post_id = p
                       /\ loc[t].sender = u}

AllRepostCalls(p) == UNION {RepostCalls(p, u) : u \in Users}

\* when all repost calls on p that were taken up have returned, having found
\* the mapping, repost_count is the number of these calls
C17_CountPart ==
    \A p \in PostIds :
        /\ AllRepostCalls(p) # {}
        /\ \A t \in AllRepostCalls(p) : pc[t] = "done" /\ loc[t].feed_key # {}
        => repost_count(table, p) = Cardinality(AllRepostCalls(p))

\* C17: when all repost calls on p that were taken up have returned, having
\* found the mapping, repost_count is the number of these calls, and every
\* user's partition holds one audit record of p for each of the user's calls.
C17_EveryRepostCounts ==
    \A p \in PostIds :
        /\ AllRepostCalls(p) # {}
        /\ \A t \in AllRepostCalls(p) : pc[t] = "done" /\ loc[t].feed_key # {}
        => /\ repost_count(table, p) = Cardinality(AllRepostCalls(p))
           /\ \A u \in Users :
                 Cardinality({x \in table.repost : x.PK = u /\ x.SK[1] = p})
                     = Cardinality(RepostCalls(p, u))

HasEdge(tbl, a, b) == HasItem(tbl.conn, [PK |-> a, SK |-> ConnPrefix \o b])

ConnectCalls == {t \in DOMAIN pc : pc[t] # "idle" /\ loc[t].op = "connect"}

\* C18: whenever no connect_users call is under way and none has failed, the
\* edge record (USER#a, CONN#b) exists iff (USER#b, CONN#a) exists, and b is
\* in list_connections(a) iff a is in list_connections(b).
C18_Symmetric ==
    (\A t \in ConnectCalls : pc[t] = "done") =>
        \A a \in Users, b \in Users :
            /\ HasEdge(table, a, b) <=> HasEdge(table, b, a)
            /\ b \in Range(list_connections(table, a, ListConnDefaultLimit))
                  <=> a \in Range(list_connections(table, b, ListConnDefaultLimit))
            /\ HasEdge(table, a, b)
                  <=> b \in Range(list_connections(table, a, ListConnDefaultLimit))

\* alice is connected to bob and to carol, in different seconds
C18_Witness ==
    /\ \A t \in ConnectCalls : pc[t] = "done"
    /\ Range(list_connections(table, Alice, ListConnDefaultLimit)) = {Bob, Carol}
    /\ Range(list_connections(table, Bob, ListConnDefaultLimit)) = {Alice}
    /\ \E x \in table.conn, y \in table.conn : x.created_at # y.created_at

\* C19: a connect_users(a, b) or connect_users(b, a) that runs when an earlier
\* connect_users of the pair has completed leaves the table as it was.
C19_Idempotent ==
    [][\A c \in Calls :
          /\ Returns(c)
          /\ loc'[c].op = "connect"
          /\ \E b \in Calls :
                /\ pc[b] = "done"
                /\ loc[b].op = "connect"
                /\ {loc[b].sender, loc[b].to_sub} = {loc'[c].sender, loc'[c].to_sub}
          => table' = table]_vars

\* the summaries of sub's conversations whose peer is peer
SummariesWith(sub, peer) ==
    LET convs == list_dm_conversations(table, sub, ListConvDefaultLimit)
    IN {i \in 1 .. Len(convs) : convs[i].peer_sub = peer}

\* C20: every pointer record belongs to a conversation that holds a message;
\* after a completed send_dm(a, b) each of a and b has exactly one pointer
\* record of the conversation, list_dm_conversations(a) has exactly one
\* summary with peer b and list_dm_conversations(b) exactly one with peer a.
C20_OnePointer ==
    /\ \A p \in table.dm_ptr : \E m \in table.dm : m.PK = p.SK
    /\ \A c \in DOMAIN pc : pc[c] = "done" /\ loc[c].op = "dm" =>
          LET a == loc[c].sender
              b == loc[c].to_sub
              cid == _convo_id(a, b)
          IN /\ StoredMsg(loc[c]) \in table.dm
             /\ \A s \in {a, b} :
                   Cardinality({p \in table.dm_ptr :
                                   /\ p.PK = s
                                   /\ BeforeFirst(p.SK, 124) \in {a, b}
                                   /\ AfterFirst(p.SK, 124) \in {a, b}}) = 1
             /\ HasItem(table.dm_ptr, [PK |-> a, SK |-> cid])
             /\ HasItem(table.dm_ptr, [PK |-> b, SK |-> cid])
             /\ Cardinality(SummariesWith(a, b)) = 1
             /\ Cardinality(SummariesWith(b, a)) = 1

\* alice and bob have written to each other, and carol to alice
C20_Witness ==
    /\ \E c \in DmCalls(Alice, Bob), d \in DmCalls(Alice, Bob) :
          /\ pc[c] = "done" /\ pc[d] = "done"
          /\ loc[c].sender = Alice /\ loc[d].sender = Bob
    /\ \E c \in DmCalls(Alice, Carol) : pc[c] = "done"
    /\ Len(list_dm_conversations(table, Alice, ListConvDefaultLimit)) = 2
    /\ Len(list_dm_conversations(table, Bob, ListConvDefaultLimit)) = 1

\* the message that the latest send_dm of conversation cid stored
SentMsgs(cid) ==
    {c \in DOMAIN pc : /\ loc[c].op = "dm"
                       /\ StoredMsg(loc[c]).PK = cid
                       /\ StoredMsg(loc[c]) \in table.dm}

Newest(cid) ==
    StoredMsg(loc[CHOOSE c \in SentMsgs(cid) : \A d \in SentMsgs(cid) : d <= c])

\* the table when the messages have gone and the pointers are still there
WithoutMessages(tbl) == [tbl EXCEPT !.dm = {}]

\* list_dm_conversations(sub) is ordered by last_at, largest first; a pointer
\* whose conversation has no message gives a summary with empty last_text
\* and the pointer's updated_at, one summary per pointer.
C21_OrderAndFallback ==
    \A sub \in Users :
        LET convs == list_dm_conversations(table, sub, ListConvDefaultLimit)
            ptrs == {p \in table.dm_ptr : p.PK = sub}
            bare == list_dm_conversations(WithoutMessages(table), sub,
                                          ListConvDefaultLimit)
        IN /\ \A i \in 1 .. Len(convs) - 1 :
                 convs[i].last_at >= convs[i + 1].last_at
           /\ Len(convs) = Cardinality(ptrs)
           /\ \A i \in 1 .. Len(convs) :
                 convs[i].last_at =
                     Newest(_convo_id(sub, convs[i].peer_sub)).created_at
           /\ Len(bare) = Cardinality(ptrs)
           /\ \A i \in 1 .. Len(bare) - 1 : bare[i].last_at >= bare[i + 1].last_at
           /\ \A p \in ptrs :
                 /\ Summary(WithoutMessages(table), sub, p).last_text = NoText
                 /\ Summary(WithoutMessages(table), sub, p).last_at = p.updated_at
                 /\ Summary(WithoutMessages(table), sub, p) \in Range(bare)

\* C21: list_dm_conversations(sub) is ordered by last_at, largest first; the
\* last_text and last_at of each summary are those of the message that was
\* sent last in that conversation (all its send_dm calls having completed);
\* and a pointer whose conversation has no message gives a summary with empty
\* last_text and the pointer's updated_at.
C21_Summaries ==
    /\ C21_OrderAndFallback
    /\ \A sub \in Users :
          LET convs == list_dm_conversations(table, sub, ListConvDefaultLimit)
          IN \A i \in 1 .. Len(convs) :
                LET m == Newest(_convo_id(sub, convs[i].peer_sub))
                IN (\A c \in DmCalls(sub, convs[i].peer_sub) : pc[c] = "done")
                   => convs[i].last_text = m.text /\ convs[i].last_at = m.created_at

\* ------------------------------------------------------ the hub, continued
NotAccepted(ws) == conn[ws].st \in {"new", "accepting", "failed", "refused"}

InSomeRoom(ws) == \E rid \in DOMAIN rooms : ws \in rooms[rid]

\* C23: a connection whose ws.accept() has not completed, or has failed, is
\* in no room and in no broadcast's snapshot, no broadcast has attempted a
\* send to it and nothing was pushed to it.
C23_AcceptFirst ==
    \A ws \in WS : NotAccepted(ws) =>
        /\ ~InSomeRoom(ws)
        /\ \A t \in Tasks : ws \notin loc[t].room /\ ws \notin Range(loc[t].tried)
        /\ inbox[ws] = <<>>

\* one connection's accept failed while a broadcast to the other one, a
\* member of the room it asked for, was under way
C23_Witness ==
    \E w1 \in WS, w2 \in WS, t \in Tasks :
        /\ conn[w1].st = "failed"
        /\ conn[w2].st = "open" /\ InSomeRoom(w2)
        /\ pc[t] = "prune" /\ w2 \in Range(loc[t].tried)
        /\ inbox[w2] # <<>>

\* C24: every member of a room presented a token that verify_jwt accepts, its
\* room id is convo_id of the token's subject and the requested peer, and a
\* connection refused for a missing or invalid token was not accepted, is in
\* no room and was pushed nothing.
C24_VerifiedMembers ==
    /\ \A rid \in DOMAIN rooms : \A ws \in rooms[rid] :
          /\ conn[ws].st = "open"
          /\ GoodToken(conn[ws].me) \in Tokens
          /\ \E r \in WsRequests :
                /\ r[1].present /\ r[1].valid
                /\ r[1].sub = conn[ws].me /\ r[2] = conn[ws].peer
                /\ rid = join(sorted(r[1].sub, r[2]))
    /\ \A ws \in WS : conn[ws].st = "refused" =>
          /\ ~InSomeRoom(ws)
          /\ inbox[ws] = <<>>
          /\ \A t \in Tasks : ws \notin loc[t].room

\* one connection was refused, the other is a member and was pushed a message
C24_Witness ==
    \E w1 \in WS, w2 \in WS :
        /\ conn[w1].st = "refused"
        /\ InSomeRoom(w2)
        /\ inbox[w2] # <<>>

\* no call overlaps call t: the calls issued before it have returned or
\* failed, and no call was issued after it
Serialized(t) ==
    \A u \in Tasks :
        /\ u < t => pc[u] \in {"done", "error"}
        /\ u > t => pc[u] = "idle"

\* the call that sent the i-th payload pushed to ws
SenderOf(ws, i) ==
    {u \in Tasks : pc[u] # "idle" /\ loc[u].msg_id = inbox[ws][i].item.msg_id}

\* C26: when api_dm calls do not overlap, a send to a live connection adds
\* the call's payload at the end of what the connection has received, where
\* it was not yet, after the payloads of the calls issued earlier and of no
\* other call; and when the call returns, every live connection that was in
\* the room when the call began holds its payload exactly once.
C26_Step ==
    \A t \in Tasks :
        /\ Sends(t) /\ Serialized(t) /\ conn[SentTo(t)].alive =>
              LET ws == SentTo(t)
              IN /\ inbox'[ws] = Append(inbox[ws], Payload(loc'[t]))
                 /\ Pushed(ws, loc'[t].msg_id) = {}
                 /\ \A i \in 1 .. Len(inbox[ws]) :
                       \E u \in SenderOf(ws, i) : u < t /\ pc[u] = "done"
        /\ pc[t] = "idle" /\ pc'[t] \in {"sending", "prune"} =>
              loc'[t].room = Members(Rid(t)')
        /\ Prunes(t) /\ Serialized(t) =>
              \A ws \in loc[t].room : conn[ws].alive =>
                  Cardinality(Pushed(ws, loc[t].msg_id)) = 1

C26_InOrder == [][C26_Step]_vars

\* two calls have returned and both connections of the room hold the first
\* call's payload and then the second's
C26_Witness ==
    /\ \A t \in Tasks : pc[t] = "done" /\ loc[t].msg_id # 0
    /\ \A ws \in WS :
          /\ conn[ws].alive /\ InSomeRoom(ws)
          /\ inbox[ws] = <<Payload(loc[1]), Payload(loc[2])>>

\* a call that has passed send_dm
InFlight(t) == pc[t] \in {"sending", "prune"}

\* C27: the disconnect of a connection takes this connection out of its room
\* and changes nothing else: every other member of the room stays, every
\* other room stays as it is, the table, the pushed payloads and every
\* running api_dm with its remaining sends are untouched; a call in flight
\* keeps its message stored, and when its loop is over every connection of
\* its snapshot whose client is still there holds the payload.
C27_Step ==
    /\ \A ws \in WS : Detaches(ws) =>
          LET rid == convo_id(conn[ws].me, conn[ws].peer)
          IN /\ RoomGet(rooms', rid) = RoomGet(rooms, rid) \ {ws}
             /\ \A r \in (DOMAIN rooms \cup DOMAIN rooms') \ {rid} :
                   /\ r \in DOMAIN rooms /\ r \in DOMAIN rooms'
                   /\ rooms'[r] = rooms[r]
             /\ table' = table /\ inbox' = inbox
             /\ pc' = pc /\ loc' = loc
             /\ \A w \in WS \ {ws} : conn'[w] = conn[w]
    /\ \A t \in Tasks :
          /\ InFlight(t)' => StoredMsg(loc'[t]) \in table'.dm
          /\ pc'[t] = "prune" =>
                \A w \in loc'[t].room :
                    conn'[w].alive => Pushed(w, loc[t].msg_id)' # {}

C27_DetachOnly == [][C27_Step]_vars

\* bob sent a DM with two of his connections in the room; one of them was
\* disconnected before the loop was over, the other one holds the payload
C27_Witness ==
    \E t \in Tasks, w1 \in WS, w2 \in WS :
        /\ pc[t] = "prune" /\ loc[t].sender = Bob
        /\ {w1, w2} \subseteq loc[t].room
        /\ conn[w1].st = "closed"
        /\ conn[w2].alive /\ InSomeRoom(w2)
        /\ Pushed(w2, loc[t].msg_id) # {}
        /\ StoredMsg(loc[t]) \in table.dm

\* C28: an api_dm that ends in an error has pushed nothing and has left the
\* rooms alone; of send_dm's three writes it has made the ones before the
\* failing one and none after it (at most the message and the sender's
\* pointer, and no pointer without the message), it makes no write later on,
\* and every payload that any connection holds is of a call that did not fail.
C28_Step ==
    /\ \A t \in Tasks : pc[t] = "idle" /\ pc'[t] = "error" =>
          LET written == table'.dm \ table.dm
          IN /\ inbox' = inbox /\ rooms' = rooms /\ loc' = loc
             /\ Cardinality(written) <= 1
             /\ written = {} => table' = table
             /\ \A m \in written :
                   /\ m.PK = _convo_id(m.from, m.to)
                   /\ {p \in table'.dm_ptr : p.PK # m.from} =
                         {p \in table.dm_ptr : p.PK # m.from}
    /\ \A t \in Tasks : pc[t] = "error" =>
          /\ pc'[t] = "error"
          /\ (\A u \in Tasks : pc'[u] = pc[u]) => table' = table
    /\ \A ws \in WS : \A i \in 1 .. Len(inbox'[ws]) :
          \E u \in Tasks :
              /\ pc'[u] \in {"sending", "prune", "done"}
              /\ loc'[u].msg_id = inbox'[ws][i].item.msg_id

C28_FailureSurfaces == [][C28_Step]_vars

\* a send failed after its message was stored, with a live connection in the
\* room of the conversation that was pushed nothing
C28_Witness ==
    \E t \in Tasks, m \in table.dm, ws \in WS :
        /\ pc[t] = "error"
        /\ \A u \in Tasks : loc[u].msg_id # m.msg_id
        /\ ws \in RoomGet(rooms, m.PK)
        /\ conn[ws].alive
        /\ inbox[ws] = <<>>

\* C29: no call of the repository changes or removes a message record: every
\* record of the DM partitions is still there, as it was, after every call,
\* and a send_dm adds its own record beside them, also in a conversation
\* that already has a message of the same second.
C29_Step ==
    /\ table.dm \subseteq table'.dm
    /\ \A c \in DOMAIN pc : pc[c] = "idle" /\ pc'[c] # "idle" =>
          IF loc'[c].op = "dm"
          THEN /\ table'.dm \subseteq table.dm \cup {StoredMsg(loc'[c])}
               /\ pc'[c] = "done" =>
                     /\ StoredMsg(loc'[c]) \in table'.dm
                     /\ Cardinality(table'.dm) = Cardinality(table.dm) + 1
          ELSE table'.dm = table.dm

C29_Immutable == [][C29_Step]_vars

\* three completed send_dm calls have left three messages in one
\* conversation, all of the same second
C29_Witness ==
    /\ \A c \in Calls : pc[c] = "done" /\ loc[c].op = "dm"
    /\ Cardinality({m \in table.dm : m.PK = _convo_id(Alice, Bob)}) = 3
    /\ \A m \in table.dm : m.created_at = now

\* ------------------------------------------------------- the entry points
Min(a, b) == IF a <= b THEN a ELSE b

ValidToken(tok) == tok.present /\ tok.valid

\* C22: every stored post has the first 1000 characters of the text that
\* create_post was given (the stripped body of the request), every stored DM
\* message the first 2000 characters of the request's text, whatever their
\* length; and no request is turned down for the length of its text: the
\* only validation error is that of an empty post.
C22_Truncated ==
    /\ \A x \in table.feed :
          \E c \in Reqs :
              /\ loc[c].op = "post" /\ loc[c].post_id = x.post_id
              /\ loc[c].text = strip(loc[c].body)
              /\ x.text.w = loc[c].text.w
              /\ x.text.n = Min(loc[c].text.n, 1000)
    /\ \A m \in table.dm :
          \E c \in Reqs :
              /\ loc[c].op = "dm" /\ loc[c].msg_id = m.msg_id
              /\ m.text.w = loc[c].body.w
              /\ m.text.n = Min(loc[c].body.n, 2000)
    /\ \A c \in Reqs : pc[c] = "error" /\ ValidToken(loc[c].tok) =>
          /\ loc[c].err \in {"HTTPException 400", "ClientError"}
          /\ loc[c].err = "HTTPException 400" =>
                loc[c].op = "post" /\ strip(loc[c].body).n = 0

\* a post of 1001 characters and a DM of 2001 characters were accepted and
\* are stored with 1000 and 2000 characters
C22_Witness ==
    /\ \E c \in Reqs, x \in table.feed :
          /\ pc[c] = "done" /\ loc[c].body.n = 1001
          /\ x.post_id = loc[c].post_id /\ x.text.n = 1000
    /\ \E c \in Reqs, m \in table.dm :
          /\ pc[c] = "done" /\ loc[c].body.n = 2001
          /\ m.msg_id = loc[c].msg_id /\ m.text.n = 2000

\* the entry points behind claims(request)
Protected == {"post", "like", "repost", "connect", "dm", "connections", "dm_list"}

\* request c is taken up and handled (api_dm: up to its first await)
Handled(c) == pc[c] = "idle" /\ pc'[c] # "idle"

\* what a handled request did in the name of sub
ActsAs(f, sub) ==
    /\ f.sender = sub
    /\ f.op = "post" =>
          \E x \in table'.feed \ table.feed :
              x.author_sub = sub /\ x.post_id = f.post_id
    /\ f.op = "like" =>
          /\ HasLike(table', f.post_id, sub) = f.liked
          /\ HasLike(table, f.post_id, sub) = ~f.liked
          /\ \A x \in (table'.like \ table.like) \cup (table.like \ table'.like) :
                x.PK = f.post_id /\ x.SK = sub
    /\ f.op = "repost" =>
          \E x \in table'.repost : x.PK = sub /\ x.SK = <<f.post_id, f.ts>>
    /\ f.op = "connect" =>
          HasEdge(table', sub, f.to_sub) /\ HasEdge(table', f.to_sub, sub)
    /\ f.op = "dm" =>
          \E m \in table'.dm \ table.dm :
              m.from = sub /\ m.to = f.to_sub /\ m.msg_id = f.msg_id
    /\ f.op = "connections" =>
          f.result = list_dm_conversations(table, sub, ListConvDefaultLimit)
    /\ f.op = "dm_list" =>
          f.result = list_dm(sub, f.to_sub, ListDMDefaultLimit)

\* C25: a request to a protected entry point without id_token cookie, or
\* with one that verify_jwt refuses, ends in an error (401, or the verifier's
\* exception), writes nothing to the table and pushes nothing; one that does
\* not end in an error acts for the token's subject as author, liker,
\* reposter, connecting user, sender or reader; and a request that ended in
\* an error does nothing afterwards.
C25_Step ==
    \A c \in Reqs :
        /\ Handled(c) /\ loc'[c].op \in Protected =>
              IF ~ValidToken(loc'[c].tok)
              THEN /\ pc'[c] = "error"
                   /\ loc'[c].err \in {"HTTPException 401", "InvalidTokenError"}
                   /\ loc'[c].err = "HTTPException 401" <=> ~loc'[c].tok.present
                   /\ table' = table /\ inbox' = inbox /\ rooms' = rooms
              ELSE pc'[c] # "error" => ActsAs(loc'[c], loc'[c].tok.sub)
        /\ pc[c] = "error" =>
              /\ pc'[c] = "error" /\ loc'[c] = loc[c]
              /\ (\A u \in Reqs : pc'[u] = pc[u]) => table' = table /\ inbox' = inbox

C25_Authenticated == [][C25_Step]_vars

\* a DM request without cookie was refused although bob is attached to the
\* room, and alice's own request reached him
C25_Witness ==
    \E c \in Reqs, d \in Reqs, ws \in WS :
        /\ pc[c] = "error" /\ loc[c].op = "dm"
        /\ loc[c].err = "HTTPException 401"
        /\ pc[d] = "done" /\ loc[d].op = "dm" /\ loc[d].sender = Alice
        /\ InSomeRoom(ws)
        /\ Len(inbox[ws]) = 1
        /\ inbox[ws][1].item.from = Alice
        /\ Cardinality(table.dm) = 1

\* an authenticated request to entry point op with an empty or blank text is
\* turned down with a validation error before anything is written or pushed
\* (the store being available)
RejectsEmpty(op) ==
    \A c \in Reqs :
        /\ Handled(c) /\ loc'[c].op = op
        /\ ValidToken(loc'[c].tok)
        /\ strip(loc'[c].body).n = 0
        /\ loc'[c].err # "ClientError"
        => /\ pc'[c] = "error"
           /\ loc'[c].err = "HTTPException 400"
           /\ table' = table /\ inbox' = inbox

\* api_post turns an empty text down
C30_PostPart == [][RejectsEmpty("post")]_vars

\* C30: a create-post or send-DM request with an empty (or blank) text ends
\* in a validation error, writes nothing to the table and pushes nothing.
C30_EmptyRejected == [][RejectsEmpty("post") /\ RejectsEmpty("dm")]_vars

\* ------------------------------------------------------------ like counts
\* the toggle_like calls on post p that are under way
LikesUnderWay(p) ==
    {t \in DOMAIN pc : /\ loc[t].op = "like" /\ loc[t].post_id = p
                       /\ pc[t] \notin {"idle", "done", "error"}}

LikeRecords(tbl, p) == {x \in tbl.like : x.PK = p}

NoCallFailed == \A t \in DOMAIN pc : pc[t] # "error"

\* every finished toggle_like of the post had found its mapping
LikedWithMapping(p) ==
    \A t \in DOMAIN pc :
        loc[t].op = "like" /\ loc[t].post_id = p /\ pc[t] = "done"
        => loc[t].feed_key # {}

\* with at most two toggles of a post, like_count is the number of its like
\* records whenever none of them is under way
C31_CountsRecords ==
    NoCallFailed =>
        \A x \in table.feed :
            /\ Posted(table, x.post_id)
            /\ LikesUnderWay(x.post_id) = {}
            /\ LikedWithMapping(x.post_id)
            => x.like_count = Cardinality(LikeRecords(table, x.post_id))

\* C31: for a post whose mapping exists, like_count is never negative, and
\* whenever no toggle_like on the post is under way it is the number of the
\* post's like records, however the toggles of the users interleave (no call
\* having failed on the store, every finished toggle having found the
\* mapping).
C31_LikeCount ==
    NoCallFailed =>
        \A x \in table.feed : Posted(table, x.post_id) =>
            /\ x.like_count >= 0
            /\ LikesUnderWay(x.post_id) = {} /\ LikedWithMapping(x.post_id)
                  => x.like_count = Cardinality(LikeRecords(table, x.post_id))

\* ------------------------------------------------- what a broadcast touches
\* api_dm has reached broadcast in this step
StartsBroadcast(t) == pc[t] = "idle" /\ pc'[t] \in {"sending", "prune", "done"}

\* a step of the broadcast of t: its start, a send, or the pruning
BroadcastStep(t) == StartsBroadcast(t) \/ Sends(t) \/ Prunes(t)

\* C32: a broadcast to a conversation that has no room sends nothing and
\* leaves the rooms map as it is, with no entry made for the conversation; no
\* step of a broadcast adds a connection to a room, and none changes a room
\* other than the one of its conversation.
C32_Step ==
    \A t \in Tasks :
        LET rid == convo_id(loc'[t].sender, loc'[t].to_sub)
        IN /\ StartsBroadcast(t) /\ RoomGet(rooms, rid) = {}
              => /\ inbox' = inbox
                 /\ rooms' = rooms
                 /\ pc'[t] = "done"
           /\ BroadcastStep(t)
              => /\ \A r \in DOMAIN rooms' : rooms'[r] \subseteq RoomGet(rooms, r)
                 /\ \A r \in (DOMAIN rooms \cup DOMAIN rooms') \ {rid} :
                       /\ r \in DOMAIN rooms /\ r \in DOMAIN rooms'
                       /\ rooms'[r] = rooms[r]
                 /\ \A ws \in WS :
                       inbox'[ws] # inbox[ws] => ws \in loc'[t].room

C32_BroadcastFrame == [][C32_Step]_vars

\* the first DM went to a conversation without a room and reached no
\* connection while bob's room with himself was there; the second one is
\* broadcast in the room made since, and no connection has gone
C32_Witness ==
    /\ pc[1] = "done" /\ pc[2] = "prune"
    /\ \A ws \in WS : conn[ws].alive /\ Pushed(ws, loc[1].msg_id) = {}
    /\ loc[2].room # {} /\ Rid(2) = Rid(1)
    /\ convo_id(Bob, Bob) \in DOMAIN rooms /\ Rid(2) # convo_id(Bob, Bob)

\* ------------------------------------------------- detached for good
\* the client of an attached connection has gone, ws_dm has not yet seen it
Dropped(ws) == conn[ws].st = "open" /\ ~conn[ws].alive

Closed(ws) == conn[ws].st = "closed"

C33_Step ==
    /\ \A ws \in WS :
          /\ Closed(ws) => Closed(ws)'
          /\ Detaches(ws) /\ ~InSomeRoom(ws) => rooms' = rooms
    /\ \A t \in Tasks :
          /\ StartsBroadcast(t) => \A ws \in loc'[t].room : ~Closed(ws)
          /\ Sends(t) => SentTo(t) \in loc'[t].room

\* C33: the connection of a client that has gone is detached in the end; once
\* ws_dm has handled the disconnect the connection is in no room and stays
\* out of every room, whether or not a broadcast had pruned it before (the
\* rooms are then left as they are), and a broadcast that starts later has
\* no such connection in its list and sends to its list only.
C33_Detached ==
    /\ \A ws \in WS : Dropped(ws) ~> Closed(ws)
    /\ [](\A ws \in WS : Closed(ws) => ~InSomeRoom(ws))
    /\ [][C33_Step]_vars

\* the first DM was pushed to a connection that is closed now; the second
\* DM, sent later in the same conversation, goes to the other connection only
C33_Witness ==
    \E w1 \in WS, w2 \in WS :
        /\ Closed(w1) /\ ~InSomeRoom(w1)
        /\ pc[1] = "done" /\ Pushed(w1, loc[1].msg_id) # {}
        /\ pc[2] = "prune" /\ loc[2].room = {w2} /\ Rid(2) = Rid(1)
        /\ Pushed(w1, loc[2].msg_id) = {}

\* ------------------------------------------------------ the OAuth callback
SetsTokenCookie(resp) ==
    resp.cookies[ID_COOKIE].set \/ resp.cookies[ACCESS_COOKIE].set

\* the checks of the callback, on what the request carried and what the
\* token endpoint answered
ParamsPresent(f) == Truthy(f.code) /\ Truthy(f.state)

StateCookieGood(f) ==
    /\ f.cookie.some /\ f.cookie # EmptyCookie
    /\ f.cookie.sig = <<STATE_SECRET, f.cookie.raw, f.cookie.ts>>
    /\ f.cookie.raw = f.state.v

ExchangeGood(f) ==
    /\ f.token_resp.arrived /\ f.token_resp.status = 200 /\ f.token_resp.json
    /\ f.token_resp.id_token.present /\ f.token_resp.access_token.present

IdTokenGood(f) == f.token_resp.id_token.valid

\* the errors of the callback that come after its state checks
AfterState ==
    {"httpx error", "Token exchange failed", "JSONDecodeError",
     "Tokens not returned", "Invalid ID token"}

\* C34: a callback sets the id_token and access_token cookies only when code
\* and state were given, the state cookie was there with a valid signature
\* and the value of the state parameter, the token exchange succeeded with
\* both tokens, and the id token verified; the cookies then hold these two
\* tokens.  A callback that has failed one of the checks has ended in an
\* error, and an error response sets no token cookie; the checks come in
\* this order: no token request is made before the state checks have passed,
\* and each error names the first check that failed.
C34_CookiesAfterChecks ==
    \A c \in AuthReqs : loc[c].op = "callback" =>
        LET f == loc[c]
        IN /\ SetsTokenCookie(f.resp) =>
                 /\ pc[c] = "done"
                 /\ ParamsPresent(f) /\ StateCookieGood(f)
                 /\ ExchangeGood(f) /\ IdTokenGood(f)
                 /\ f.resp.cookies[ID_COOKIE].value = <<f.token_resp.id_token>>
                 /\ f.resp.cookies[ACCESS_COOKIE].value
                        = <<f.token_resp.access_token>>
           /\ pc[c] = "exchange" => ParamsPresent(f) /\ StateCookieGood(f)
           /\ pc[c] \in {"done", "error"} =>
                 \/ pc[c] = "done" /\ SetsTokenCookie(f.resp)
                 \/ /\ pc[c] = "error" /\ f.resp.status # 302
                    /\ ~SetsTokenCookie(f.resp)
                    /\ ~(/\ ParamsPresent(f) /\ StateCookieGood(f)
                          /\ f.at - f.cookie.ts <= StateMaxAge
                          /\ ExchangeGood(f) /\ IdTokenGood(f))
           /\ f.resp.detail \in AfterState =>
                 ParamsPresent(f) /\ StateCookieGood(f)
           /\ f.resp.detail = "State mismatch" =>
                 /\ ParamsPresent(f)
                 /\ f.cookie.sig = <<STATE_SECRET, f.cookie.raw, f.cookie.ts>>
           /\ f.resp.detail = "Invalid ID token" => ExchangeGood(f)

\* a login, then its callback with the cookie of the login: both token
\* cookies are set
C34_Witness ==
    /\ loc[1].op = "login" /\ loc[2].op = "callback" /\ pc[2] = "done"
    /\ loc[2].cookie \in Issued
    /\ loc[2].resp.cookies[ID_COOKIE].value = <<GoodToken(Alice)>>
    /\ loc[2].resp.cookies[ACCESS_COOKIE].value = <<AccessToken>>

====
